---------------------------- MODULE Spec2Model ----------------------------
(***************************************************************************)
(* Task & Note Manager API: the relational store (tags, collections,       *)
(* tasks, notes and the three tag association tables), the service         *)
(* handlers that mutate it, and the search services that read it.          *)
(*                                                                         *)
(* Each mutating handler is one action: it runs its checks in the order    *)
(* of the code, applies its flushes to a working copy of the store and     *)
(* commits that copy, or raises and leaves the committed store untouched   *)
(* (the request's session is closed without commit).                       *)
(***************************************************************************)
EXTENDS Integers, Sequences, FiniteSets, TLC

(***************************************************************************)
(* Bounds of the model.                                                    *)
(***************************************************************************)
MaxUsers == 2
MaxTags == 2
MaxCollections == 1
MaxTasks == 1
MaxNotes == 1
MaxTagIdsLen == 2

Users == 1..MaxUsers
TagIds == 1..MaxTags
CollectionIds == 1..MaxCollections
TaskIds == 1..MaxTasks
NoteIds == 1..MaxNotes

(***************************************************************************)
(* Optional[int] = None.  A request body is a record of the fields it      *)
(* sets: a field it does not mention is not in its domain, which is what   *)
(* dict(exclude_unset=True) yields.                                        *)
(***************************************************************************)
None == -1

\* CollectionType
MIXED == "mixed"
TASKS_ONLY == "tasks-only"
NOTES_ONLY == "notes-only"
CollectionType == {MIXED, TASKS_ONLY, NOTES_ONLY}

(***************************************************************************)
(* Strings are sequences of characters; a NULL column is NullStr.          *)
(***************************************************************************)
NullStr == <<"NULL">>

VARIABLES
    tags,                   \* table tags: id -> [user_id, title, updated_at]
    collections,            \* table collections: id -> [user_id, title, description, type,
                            \*                            updated_at]
    tasks,                  \* table tasks: id -> [user_id, collection_id, title, description,
                            \*                      status, priority, updated_at]
    notes,                  \* table notes: id -> [user_id, collection_id, title, description,
                            \*                      updated_at]
    tag_task_association,   \* set of <<tag_id, task_id>>
    tag_note_association,   \* set of <<tag_id, note_id>>
    tag_collection_association, \* set of <<tag_id, collection_id>>
    foreign_keys,           \* whether the store enforces foreign keys (fixed per deployment)
    now,                    \* the store's clock: the value of func.now(); a run takes
                            \* place within one tick of it
    resp,                   \* the pending response of a mutating request, and its request
    gs,                     \* SearchService.global_search: where it is, and its arguments
    sub,                    \* the four sub-searches of asyncio.gather: state and result
    store_reads,            \* the kinds whose search query was issued to the store
    sresp,                  \* the response of a search request
    sessions                \* the requests in flight that run interleaved, each in its
                            \* own AsyncSession: where it is, what it loaded and flushed

store_vars == <<tags, collections, tasks, notes, tag_task_association,
                tag_note_association, tag_collection_association>>
env_vars == <<foreign_keys, now>>
search_vars == <<gs, sub, store_reads, sresp>>
session_vars == <<sessions>>
vars == <<tags, collections, tasks, notes, tag_task_association,
          tag_note_association, tag_collection_association, foreign_keys, now, resp,
          gs, sub, store_reads, sresp, sessions>>

\* The committed store as one value (what a new session reads).
DB == [tags |-> tags, collections |-> collections, tasks |-> tasks, notes |-> notes,
       tag_task_association |-> tag_task_association,
       tag_note_association |-> tag_note_association,
       tag_collection_association |-> tag_collection_association,
       now |-> now]

----------------------------------------------------------------------------
(***************************************************************************)
(* Helpers.                                                                *)
(***************************************************************************)
Range(s) == {s[i] : i \in DOMAIN s}
Put(f, k, v) == [x \in (DOMAIN f) \cup {k} |-> IF x = k THEN v ELSE f[x]]
Drop(f, k) == [x \in (DOMAIN f) \ {k} |-> f[x]]
SetMin(S) == CHOOSE m \in S : \A x \in S : m <= x

SetMax(S) == CHOOSE m \in S : \A x \in S : m >= x

RECURSIVE sorted_descending(_)
sorted_descending(S) == IF S = {} THEN <<>>
                        ELSE LET m == SetMax(S) IN <<m>> \o sorted_descending(S \ {m})

\* sorted(S): the elements of a set of integers in ascending order.
RECURSIVE sorted(_)
sorted(S) == IF S = {} THEN <<>>
             ELSE LET m == SetMin(S) IN <<m>> \o sorted(S \ {m})

\* list(dict.fromkeys(seq)): de-duplicate, keeping the first occurrence of each.
RECURSIVE dedupe(_)
dedupe(s) == IF s = <<>> THEN <<>>
             ELSE LET r == dedupe(SubSeq(s, 1, Len(s) - 1))
                      x == s[Len(s)]
                  IN IF x \in Range(r) THEN r ELSE Append(r, x)

\* Python truthiness of an Optional[int]: None and 0 are falsy.
Truthy(i) == i # None /\ i # 0


----------------------------------------------------------------------------
(***************************************************************************)
(* Outcomes of a handler: the working copy of the store to commit, or the  *)
(* HTTPException (or store error) that ended it before db.commit().        *)
(***************************************************************************)
Done(db, status) == [status |-> status, kind |-> "ok", missing |-> <<>>, db |-> db]
HTTPException(db, status, kind, missing) ==
    [status |-> status, kind |-> kind, missing |-> missing, db |-> db]
\* A constraint violation raised by the store at flush: an unhandled 500.
IntegrityError(db) == HTTPException(db, 500, "integrity", <<>>)

(***************************************************************************)
(* Repositories: reads.                                                    *)
(***************************************************************************)
\* select(Collection).where(id == collection_id, user_id == user_id): the ids found.
get_collection_by_id_and_user(db, collection_id, user_id) ==
    {c \in DOMAIN db.collections :
        c = collection_id /\ db.collections[c].user_id = user_id}

get_collection_by_title_and_user(db, title, user_id) ==
    {c \in DOMAIN db.collections :
        db.collections[c].title = title /\ db.collections[c].user_id = user_id}

get_task_by_id_and_user(db, task_id, user_id) ==
    {t \in DOMAIN db.tasks : t = task_id /\ db.tasks[t].user_id = user_id}

get_note_by_id_and_user(db, note_id, user_id) ==
    {n \in DOMAIN db.notes : n = note_id /\ db.notes[n].user_id = user_id}

get_tag_by_id_and_user(db, tag_id, user_id) ==
    {t \in DOMAIN db.tags : t = tag_id /\ db.tags[t].user_id = user_id}

get_tag_by_title_and_user(db, title, user_id) ==
    {t \in DOMAIN db.tags : db.tags[t].title = title /\ db.tags[t].user_id = user_id}

\* The repositories' get_tags_by_ids_and_user (the services' own tag check).
get_tags_by_ids_and_user(db, tag_ids, user_id) ==
    IF tag_ids = <<>> THEN {}
    ELSE {t \in DOMAIN db.tags : db.tags[t].user_id = user_id /\ t \in Range(tag_ids)}

(***************************************************************************)
(* _utils._load_tags: the tags of user_id among tag_ids; with require_all, *)
(* fails with the sorted list of the ids it did not find.                  *)
(***************************************************************************)
_load_tags_any_owner(db, user_id, tag_ids, require_all) ==
    LET ids == dedupe(tag_ids)
        found == {t \in DOMAIN db.tags : t \in Range(ids)}
    IN  IF ids = <<>> THEN [ok |-> TRUE, tags |-> {}, missing |-> <<>>]
        ELSE IF require_all /\ Cardinality(found) # Cardinality(Range(ids))
             THEN [ok |-> FALSE, tags |-> {}, missing |-> sorted(Range(ids) \ found)]
             ELSE [ok |-> TRUE, tags |-> found, missing |-> <<>>]

_load_tags(db, user_id, tag_ids, require_all) ==
    LET ids == dedupe(tag_ids)
        found == {t \in DOMAIN db.tags :
                    db.tags[t].user_id = user_id /\ t \in Range(ids)}
    IN  IF ids = <<>> THEN [ok |-> TRUE, tags |-> {}, missing |-> <<>>]
        ELSE IF require_all /\ Cardinality(found) # Cardinality(Range(ids))
             THEN [ok |-> FALSE, tags |-> {}, missing |-> sorted(Range(ids) \ found)]
             ELSE [ok |-> TRUE, tags |-> found, missing |-> <<>>]

(***************************************************************************)
(* The lifecycle state of an ORM object in its session.  Every object the  *)
(* services hand to set_*_tags was loaded by a query or flushed by         *)
(* create_*, so it is persistent.                                          *)
(***************************************************************************)
ObjStates == {"transient", "pending", "persistent"}

_is_new_or_pending_always(st) == TRUE

_is_new_or_pending(st) == st = "transient" \/ st = "pending"

(***************************************************************************)
(* The body of set_task_tags / set_note_tags / set_collection_tags after   *)
(* _load_tags, and the flush of the association rows of entity `id`.       *)
(*   new or pending:  obj.tags = tags; every link is an INSERT.            *)
(*   persistent:      refresh(tags); clear(); extend(tags); the unit of    *)
(*                    work deletes the rows of the tags that left and      *)
(*                    inserts the rows of the tags that came.              *)
(* An INSERT of a row whose primary key (tag_id, entity_id) is already in  *)
(* the table is rejected by the store.                                     *)
(***************************************************************************)
replace_tags_append(rows, id, new_tags, st) ==
    [ok |-> TRUE, rows |-> rows \cup {<<t, id>> : t \in new_tags}]

replace_tags(rows, id, new_tags, st) ==
    LET loaded == IF _is_new_or_pending(st) THEN {}
                  ELSE {t \in TagIds : <<t, id>> \in rows}
        deletes == {<<t, id>> : t \in loaded \ new_tags}
        inserts == {<<t, id>> : t \in new_tags \ loaded}
        kept == rows \ deletes
    IN  IF inserts \cap kept # {}
        THEN [ok |-> FALSE, rows |-> rows]
        ELSE [ok |-> TRUE, rows |-> kept \cup inserts]

set_task_tags(db, task_id, tag_ids, st) ==
    LET l == _load_tags(db, db.tasks[task_id].user_id, tag_ids, TRUE)
        r == replace_tags(db.tag_task_association, task_id, l.tags, st)
    IN  IF ~l.ok THEN HTTPException(db, 400, "tags", l.missing)
        ELSE IF ~r.ok THEN IntegrityError(db)
        ELSE Done([db EXCEPT !.tag_task_association = r.rows], 200)

set_note_tags(db, note_id, tag_ids, st) ==
    LET l == _load_tags(db, db.notes[note_id].user_id, tag_ids, TRUE)
        r == replace_tags(db.tag_note_association, note_id, l.tags, st)
    IN  IF ~l.ok THEN HTTPException(db, 400, "tags", l.missing)
        ELSE IF ~r.ok THEN IntegrityError(db)
        ELSE Done([db EXCEPT !.tag_note_association = r.rows], 200)

set_collection_tags(db, collection_id, tag_ids, st) ==
    LET l == _load_tags(db, db.collections[collection_id].user_id, tag_ids, TRUE)
        r == replace_tags(db.tag_collection_association, collection_id, l.tags, st)
    IN  IF ~l.ok THEN HTTPException(db, 400, "tags", l.missing)
        ELSE IF ~r.ok THEN IntegrityError(db)
        ELSE Done([db EXCEPT !.tag_collection_association = r.rows], 200)

----------------------------------------------------------------------------
(***************************************************************************)
(* Repositories: writes.  Each ends in db.flush(), where the store checks  *)
(* its constraints.  fk tells whether the store enforces foreign keys (it  *)
(* is a property of the database DATABASE_URL selects).                    *)
(***************************************************************************)
fk_violation(db, fk, collection_id) ==
    fk /\ collection_id # None /\ collection_id \notin DOMAIN db.collections

\* updated_at: server_default=func.now(), set by the INSERT.
server_default(db, data) == data @@ [updated_at |-> db.now]

\* updated_at: onupdate=func.now(), set by an UPDATE; the unit of work sends
\* an UPDATE only for a row with a column whose value has changed.
onupdate(db, old, row) == IF row # old THEN [row EXCEPT !.updated_at = db.now] ELSE row

create_task(db, task_data, new_id, fk) ==
    IF fk_violation(db, fk, task_data.collection_id) THEN IntegrityError(db)
    ELSE Done([db EXCEPT !.tasks = Put(@, new_id, server_default(db, task_data))], 200)

create_note(db, note_data, new_id, fk) ==
    IF fk_violation(db, fk, note_data.collection_id) THEN IntegrityError(db)
    ELSE Done([db EXCEPT !.notes = Put(@, new_id, server_default(db, note_data))], 200)

\* setattr(obj, key, value) for every key of update_data.
apply_update(row, update_data) ==
    [k \in DOMAIN row |-> IF k \in DOMAIN update_data THEN update_data[k] ELSE row[k]]

update_task(db, task_id, update_data, fk) ==
    LET row == onupdate(db, db.tasks[task_id], apply_update(db.tasks[task_id], update_data))
    IN  IF row.collection_id # db.tasks[task_id].collection_id
           /\ fk_violation(db, fk, row.collection_id)
        THEN IntegrityError(db)
        ELSE Done([db EXCEPT !.tasks = Put(@, task_id, row)], 200)

update_note(db, note_id, update_data, fk) ==
    LET row == onupdate(db, db.notes[note_id], apply_update(db.notes[note_id], update_data))
    IN  IF row.collection_id # db.notes[note_id].collection_id
           /\ fk_violation(db, fk, row.collection_id)
        THEN IntegrityError(db)
        ELSE Done([db EXCEPT !.notes = Put(@, note_id, row)], 200)

\* db.delete(task): the row and, through Task.tags, its association rows.
delete_task(db, task_id) ==
    [db EXCEPT !.tasks = Drop(@, task_id),
               !.tag_task_association = {r \in @ : r[2] # task_id}]

delete_note(db, note_id) ==
    [db EXCEPT !.notes = Drop(@, note_id),
               !.tag_note_association = {r \in @ : r[2] # note_id}]

unique_violation_unchecked(table, id, row) == FALSE

\* UniqueConstraint('user_id', 'title') of collections and of tags.
unique_violation(table, id, row) ==
    \E x \in DOMAIN table :
        x # id /\ table[x].user_id = row.user_id /\ table[x].title = row.title

create_collection(db, collection_data, new_id) ==
    IF unique_violation(db.collections, new_id, collection_data) THEN IntegrityError(db)
    ELSE Done([db EXCEPT !.collections = Put(@, new_id, server_default(db, collection_data))],
              200)

update_collection_unlinking(db, collection_id, update_data) ==
    LET row == onupdate(db, db.collections[collection_id],
                        apply_update(db.collections[collection_id], update_data))
    IN  Done([db EXCEPT
                !.collections = Put(@, collection_id, row),
                !.tasks = [t \in DOMAIN @ |->
                             IF @[t].collection_id = collection_id /\ row.type = NOTES_ONLY
                             THEN [@[t] EXCEPT !.collection_id = None] ELSE @[t]],
                !.notes = [n \in DOMAIN @ |->
                             IF @[n].collection_id = collection_id /\ row.type = TASKS_ONLY
                             THEN [@[n] EXCEPT !.collection_id = None] ELSE @[n]]], 200)

update_collection(db, collection_id, update_data) ==
    LET row == onupdate(db, db.collections[collection_id],
                        apply_update(db.collections[collection_id], update_data))
    IN  IF unique_violation(db.collections, collection_id, row) THEN IntegrityError(db)
        ELSE Done([db EXCEPT !.collections = Put(@, collection_id, row)], 200)

(***************************************************************************)
(* db.delete(collection): Collection.tasks and Collection.notes cascade    *)
(* "all, delete-orphan", so every task and note of the collection is       *)
(* deleted with it, each with its association rows.                        *)
(***************************************************************************)
delete_collection_without_cascade(db, collection_id) ==
    [db EXCEPT !.collections = Drop(@, collection_id),
               !.tag_collection_association = {r \in @ : r[2] # collection_id}]

delete_collection(db, collection_id) ==
    LET ts == {t \in DOMAIN db.tasks : db.tasks[t].collection_id = collection_id}
        ns == {n \in DOMAIN db.notes : db.notes[n].collection_id = collection_id}
    IN  [db EXCEPT
            !.collections = Drop(@, collection_id),
            !.tag_collection_association = {r \in @ : r[2] # collection_id},
            !.tasks = [t \in (DOMAIN @) \ ts |-> @[t]],
            !.notes = [n \in (DOMAIN @) \ ns |-> @[n]],
            !.tag_task_association = {r \in @ : r[2] \notin ts},
            !.tag_note_association = {r \in @ : r[2] \notin ns}]

create_tag(db, tag_data, new_id) ==
    IF unique_violation(db.tags, new_id, tag_data) THEN IntegrityError(db)
    ELSE Done([db EXCEPT !.tags = Put(@, new_id, server_default(db, tag_data))], 200)

update_tag(db, tag_id, title) ==
    LET row == onupdate(db, db.tags[tag_id], [db.tags[tag_id] EXCEPT !.title = title])
    IN  IF unique_violation(db.tags, tag_id, row) THEN IntegrityError(db)
        ELSE Done([db EXCEPT !.tags = Put(@, tag_id, row)], 200)

\* db.delete(tag): the row and, through Tag.tasks/notes/collections, its links.
delete_tag(db, tag_id) ==
    [db EXCEPT !.tags = Drop(@, tag_id),
               !.tag_task_association = {r \in @ : r[1] # tag_id},
               !.tag_note_association = {r \in @ : r[1] # tag_id},
               !.tag_collection_association = {r \in @ : r[1] # tag_id}]

----------------------------------------------------------------------------
(***************************************************************************)
(* Request bodies.                                                         *)
(***************************************************************************)
\* model.dict(): every field, the unset ones at their defaults.
dict(body, defaults) == body @@ defaults
\* update_data.pop(key, None): the dictionary without the key.
pop(d, key) == [k \in (DOMAIN d) \ {key} |-> d[k]]
\* `if tag_ids:` in place of `tag_ids is not None`: an empty list sets nothing.
tag_ids_truthy(body) == "tag_ids" \in DOMAIN body /\ body.tag_ids # <<>>

\* tag_ids = data.pop("tag_ids", None); `tag_ids is not None`.
has_tag_ids(body) == "tag_ids" \in DOMAIN body
tag_ids_of(body) == IF has_tag_ids(body) THEN body.tag_ids ELSE <<>>

TaskDefaults == [description |-> NullStr, status |-> "TODO", priority |-> "MEDIUM",
                 collection_id |-> None]
NoteDefaults == [description |-> NullStr, collection_id |-> None]
CollectionDefaults == [description |-> NullStr, type |-> MIXED]

(***************************************************************************)
(* The services' type check of the collection a task or a note is put in.  *)
(***************************************************************************)
task_type_never_rejected(type) == FALSE

\* owned_collection.type == CollectionType.NOTES_ONLY
task_type_rejected(type) == type = NOTES_ONLY

note_type_rejected_swapped(type) == type = NOTES_ONLY

\* owned_collection.type == CollectionType.TASKS_ONLY
note_type_rejected(type) == type = TASKS_ONLY

(***************************************************************************)
(* TaskService.                                                            *)
(***************************************************************************)
\* The services' check of tag_ids before any write.
tags_missing(db, user_id, body) ==
    LET found == get_tags_by_ids_and_user(db, tag_ids_of(body), user_id)
    IN  IF has_tag_ids(body)
           /\ Cardinality(found) # Cardinality(Range(tag_ids_of(body)))
        THEN [failed |-> TRUE, missing |-> sorted(Range(tag_ids_of(body)) \ found)]
        ELSE [failed |-> FALSE, missing |-> <<>>]

create_task_for_user(db, user_id, task_create, new_id, fk) ==
    LET full == dict(task_create, TaskDefaults)
        data == pop(full, "tag_ids") @@ [user_id |-> user_id]
        cid == full.collection_id
        owned == get_collection_by_id_and_user(db, cid, user_id)
        tm == tags_missing(db, user_id, task_create)
        created == create_task(db, data, new_id, fk)
        tagged == set_task_tags(created.db, new_id, tag_ids_of(task_create), "persistent")
    IN  IF Truthy(cid) /\ owned = {}
        THEN HTTPException(db, 404, "collection_not_found", <<>>)
        ELSE IF Truthy(cid) /\ task_type_rejected(db.collections[cid].type)
        THEN HTTPException(db, 400, "containment", <<>>)
        ELSE IF tm.failed THEN HTTPException(db, 400, "tags", tm.missing)
        ELSE IF created.kind # "ok" THEN created
        ELSE IF ~has_tag_ids(task_create) THEN Done(created.db, 201)
        ELSE IF tagged.kind # "ok" THEN tagged
        ELSE Done(tagged.db, 201)

update_user_task(db, user_id, task_id, task_update, fk) ==
    LET task == get_task_by_id_and_user(db, task_id, user_id)
        update_data == pop(task_update, "tag_ids")
        cid == update_data.collection_id
        checked == "collection_id" \in DOMAIN update_data /\ Truthy(cid)
        owned == get_collection_by_id_and_user(db, cid, user_id)
        tm == tags_missing(db, user_id, task_update)
        updated == IF DOMAIN update_data # {}
                   THEN update_task(db, task_id, update_data, fk)
                   ELSE Done(db, 200)
        tagged == set_task_tags(updated.db, task_id, tag_ids_of(task_update), "persistent")
    IN  IF task = {} THEN HTTPException(db, 404, "not_found", <<>>)
        ELSE IF checked /\ owned = {}
        THEN HTTPException(db, 404, "collection_not_found", <<>>)
        ELSE IF checked /\ task_type_rejected(db.collections[cid].type)
        THEN HTTPException(db, 400, "containment", <<>>)
        ELSE IF tm.failed THEN HTTPException(db, 400, "tags", tm.missing)
        ELSE IF updated.kind # "ok" THEN updated
        ELSE IF ~has_tag_ids(task_update) THEN Done(updated.db, 200)
        ELSE IF tagged.kind # "ok" THEN tagged
        ELSE Done(tagged.db, 200)

delete_user_task(db, user_id, task_id) ==
    IF get_task_by_id_and_user(db, task_id, user_id) = {}
    THEN HTTPException(db, 404, "not_found", <<>>)
    ELSE Done(delete_task(db, task_id), 204)

(***************************************************************************)
(* NoteService.                                                            *)
(***************************************************************************)
create_note_for_user(db, user_id, note_create, new_id, fk) ==
    LET full == dict(note_create, NoteDefaults)
        data == pop(full, "tag_ids") @@ [user_id |-> user_id]
        cid == full.collection_id
        owned == get_collection_by_id_and_user(db, cid, user_id)
        tm == tags_missing(db, user_id, note_create)
        created == create_note(db, data, new_id, fk)
        tagged == set_note_tags(created.db, new_id, tag_ids_of(note_create), "persistent")
    IN  IF Truthy(cid) /\ owned = {}
        THEN HTTPException(db, 404, "collection_not_found", <<>>)
        ELSE IF Truthy(cid) /\ note_type_rejected(db.collections[cid].type)
        THEN HTTPException(db, 400, "containment", <<>>)
        ELSE IF tm.failed THEN HTTPException(db, 400, "tags", tm.missing)
        ELSE IF created.kind # "ok" THEN created
        ELSE IF ~has_tag_ids(note_create) THEN Done(created.db, 201)
        ELSE IF tagged.kind # "ok" THEN tagged
        ELSE Done(tagged.db, 201)

update_user_note(db, user_id, note_id, note_update, fk) ==
    LET note == get_note_by_id_and_user(db, note_id, user_id)
        update_data == pop(note_update, "tag_ids")
        cid == update_data.collection_id
        checked == "collection_id" \in DOMAIN update_data /\ Truthy(cid)
        owned == get_collection_by_id_and_user(db, cid, user_id)
        tm == tags_missing(db, user_id, note_update)
        updated == IF DOMAIN update_data # {}
                   THEN update_note(db, note_id, update_data, fk)
                   ELSE Done(db, 200)
        tagged == set_note_tags(updated.db, note_id, tag_ids_of(note_update), "persistent")
    IN  IF note = {} THEN HTTPException(db, 404, "not_found", <<>>)
        ELSE IF checked /\ owned = {}
        THEN HTTPException(db, 404, "collection_not_found", <<>>)
        ELSE IF checked /\ note_type_rejected(db.collections[cid].type)
        THEN HTTPException(db, 400, "containment", <<>>)
        ELSE IF tm.failed THEN HTTPException(db, 400, "tags", tm.missing)
        ELSE IF updated.kind # "ok" THEN updated
        ELSE IF ~has_tag_ids(note_update) THEN Done(updated.db, 200)
        ELSE IF tagged.kind # "ok" THEN tagged
        ELSE Done(tagged.db, 200)

delete_user_note(db, user_id, note_id) ==
    IF get_note_by_id_and_user(db, note_id, user_id) = {}
    THEN HTTPException(db, 404, "not_found", <<>>)
    ELSE Done(delete_note(db, note_id), 204)

(***************************************************************************)
(* CollectionService.                                                      *)
(***************************************************************************)
create_collection_for_user(db, user_id, collection_create, new_id) ==
    LET existing == get_collection_by_title_and_user(db, collection_create.title, user_id)
        full == dict(collection_create, CollectionDefaults)
        data == pop(full, "tag_ids") @@ [user_id |-> user_id]
        tm == tags_missing(db, user_id, collection_create)
        created == create_collection(db, data, new_id)
        tagged == set_collection_tags(created.db, new_id,
                                      tag_ids_of(collection_create), "persistent")
    IN  IF existing # {} THEN HTTPException(db, 400, "duplicate_title", <<>>)
        ELSE IF tm.failed THEN HTTPException(db, 400, "tags", tm.missing)
        ELSE IF created.kind # "ok" THEN created
        ELSE IF ~has_tag_ids(collection_create) THEN Done(created.db, 201)
        ELSE IF tagged.kind # "ok" THEN tagged
        ELSE Done(tagged.db, 201)

\* No tag check of its own: update_collection is flushed, then
\* set_collection_tags validates (and may raise) before the commit.
update_user_collection(db, user_id, collection_id, collection_update) ==
    LET collection == get_collection_by_id_and_user(db, collection_id, user_id)
        dup == get_collection_by_title_and_user(db, collection_update.title, user_id)
        update_data == pop(collection_update, "tag_ids")
        updated == update_collection(db, collection_id, update_data)
        tagged == set_collection_tags(updated.db, collection_id,
                                      tag_ids_of(collection_update), "persistent")
    IN  IF collection = {} THEN HTTPException(db, 404, "not_found", <<>>)
        ELSE IF collection_update.title # db.collections[collection_id].title /\ dup # {}
        THEN HTTPException(db, 400, "duplicate_title", <<>>)
        ELSE IF updated.kind # "ok" THEN updated
        ELSE IF ~has_tag_ids(collection_update) THEN Done(updated.db, 200)
        ELSE IF tagged.kind # "ok" THEN tagged
        ELSE Done(tagged.db, 200)

delete_user_collection(db, user_id, collection_id) ==
    IF get_collection_by_id_and_user(db, collection_id, user_id) = {}
    THEN HTTPException(db, 404, "not_found", <<>>)
    ELSE Done(delete_collection(db, collection_id), 204)

(***************************************************************************)
(* TagService.                                                             *)
(***************************************************************************)
create_tag_for_user(db, user_id, tag_create, new_id) ==
    LET existing_tag == get_tag_by_title_and_user(db, tag_create.title, user_id)
        tag_data == tag_create @@ [user_id |-> user_id]
    IN  IF existing_tag # {} THEN HTTPException(db, 400, "duplicate_title", <<>>)
        ELSE LET created == create_tag(db, tag_data, new_id)
             IN  IF created.kind # "ok" THEN created ELSE Done(created.db, 201)

update_user_tag(db, user_id, tag_id, tag_update) ==
    LET tag == get_tag_by_id_and_user(db, tag_id, user_id)
        existing_tag == get_tag_by_title_and_user(db, tag_update.title, user_id)
    IN  IF tag = {} THEN HTTPException(db, 404, "not_found", <<>>)
        ELSE IF tag_update.title # db.tags[tag_id].title /\ existing_tag # {}
        THEN HTTPException(db, 400, "duplicate_title", <<>>)
        ELSE update_tag(db, tag_id, tag_update.title)

delete_user_tag(db, user_id, tag_id) ==
    IF get_tag_by_id_and_user(db, tag_id, user_id) = {}
    THEN HTTPException(db, 404, "not_found", <<>>)
    ELSE Done(delete_tag(db, tag_id), 204)

----------------------------------------------------------------------------
(***************************************************************************)
(* The requests the model sends.                                           *)
(***************************************************************************)
T1 == <<"a", "b">>
T2 == <<"b">>
TaskTitles == {T1}
NoteTitles == {T1}
CollectionTitles == {T1}
TagTitles == {T1, T2}

RECURSIVE SeqsUpTo(_, _)
SeqsUpTo(S, n) == IF n = 0 THEN {<<>>}
                  ELSE LET R == SeqsUpTo(S, n - 1)
                       IN  R \cup {Append(r, x) : r \in {q \in R : Len(q) = n - 1}, x \in S}
TagIdLists == SeqsUpTo(TagIds, MaxTagIdsLen)

\* R, and R with the optional field k set to each value of S.
Optional(R, k, S) == R \cup {r @@ (k :> v) : r \in R, v \in S}

\* On create an absent collection_id is None and an absent type is MIXED.
TaskCreateBodies ==
    Optional(Optional({[title |-> t] : t \in TaskTitles}, "collection_id", CollectionIds),
             "tag_ids", TagIdLists)
TaskUpdateBodies ==
    Optional(Optional({[title |-> t] : t \in TaskTitles},
                      "collection_id", {None} \cup CollectionIds),
             "tag_ids", TagIdLists)
NoteCreateBodies ==
    Optional(Optional({[title |-> t] : t \in NoteTitles}, "collection_id", CollectionIds),
             "tag_ids", TagIdLists)
NoteUpdateBodies ==
    Optional(Optional({[title |-> t] : t \in NoteTitles},
                      "collection_id", {None} \cup CollectionIds),
             "tag_ids", TagIdLists)
CollectionCreateBodies ==
    Optional(Optional({[title |-> t] : t \in CollectionTitles},
                      "type", {TASKS_ONLY, NOTES_ONLY}),
             "tag_ids", TagIdLists)
CollectionUpdateBodies ==
    Optional(Optional({[title |-> t] : t \in CollectionTitles}, "type", CollectionType),
             "tag_ids", TagIdLists)
TagBodies == {[title |-> t] : t \in TagTitles}

(***************************************************************************)
(* Actions: one per handler.  Requests are served one at a time: a handler *)
(* starts when no response is pending, runs to its db.commit() (which      *)
(* publishes the working copy) or to its exception (which leaves the       *)
(* committed store as it was), and CloseSession ends the request.          *)
(***************************************************************************)
commit_session_state(r) ==
    /\ tags' = r.db.tags
    /\ collections' = r.db.collections
    /\ tasks' = r.db.tasks
    /\ notes' = r.db.notes
    /\ tag_task_association' = r.db.tag_task_association
    /\ tag_note_association' = r.db.tag_note_association
    /\ tag_collection_association' = r.db.tag_collection_association

Commit(r) ==
    IF r.kind = "ok"
    THEN /\ tags' = r.db.tags
         /\ collections' = r.db.collections
         /\ tasks' = r.db.tasks
         /\ notes' = r.db.notes
         /\ tag_task_association' = r.db.tag_task_association
         /\ tag_note_association' = r.db.tag_note_association
         /\ tag_collection_association' = r.db.tag_collection_association
    ELSE UNCHANGED store_vars

\* resent: the client sent the request of the pending response once more.
\* flushed: the handler raised after a flush of its session had written
\* (what it wrote is rolled back when the session is closed).
Reply(op, user_id, id, body, r, prev_tags, resent) ==
    resp' = [op |-> op, user_id |-> user_id, id |-> id, body |-> body,
             status |-> r.status, kind |-> r.kind, missing |-> r.missing,
             prev_tags |-> prev_tags, resent |-> resent,
             flushed |-> r.kind # "ok" /\ r.db # DB]

NoResp == [op |-> "none", user_id |-> 0, id |-> 0, body |-> <<>>, status |-> 0,
           kind |-> "none", missing |-> <<>>, prev_tags |-> {}, resent |-> FALSE,
           flushed |-> FALSE]

Idle == resp = NoResp

TagsOf(rows, id) == {t \in TagIds : <<t, id>> \in rows}

(***************************************************************************)
(* id = Column(Integer, primary_key=True): the store assigns the next id   *)
(* above the largest one in the table.                                     *)
(***************************************************************************)
NextId(table) == IF DOMAIN table = {} THEN 1 ELSE SetMax(DOMAIN table) + 1

CreateTask(Bodies) ==
    /\ Idle
    /\ NextId(tasks) \in TaskIds
    /\ \E u \in Users, body \in Bodies :
        LET r == create_task_for_user(DB, u, body, NextId(tasks), foreign_keys)
        IN  Commit(r) /\ Reply("create_task", u, NextId(tasks), body, r, {}, FALSE)
    /\ UNCHANGED <<env_vars, search_vars, session_vars>>

UpdateTask(Bodies) ==
    /\ Idle
    /\ \E u \in Users, id \in TaskIds, body \in Bodies :
        LET r == update_user_task(DB, u, id, body, foreign_keys)
        IN  Commit(r)
            /\ Reply("update_task", u, id, body, r, TagsOf(tag_task_association, id), FALSE)
    /\ UNCHANGED <<env_vars, search_vars, session_vars>>

DeleteTask ==
    /\ Idle
    /\ \E u \in Users, id \in TaskIds :
        LET r == delete_user_task(DB, u, id)
        IN  Commit(r)
            /\ Reply("delete_task", u, id, <<>>, r, TagsOf(tag_task_association, id), FALSE)
    /\ UNCHANGED <<env_vars, search_vars, session_vars>>

CreateNote(Bodies) ==
    /\ Idle
    /\ NextId(notes) \in NoteIds
    /\ \E u \in Users, body \in Bodies :
        LET r == create_note_for_user(DB, u, body, NextId(notes), foreign_keys)
        IN  Commit(r) /\ Reply("create_note", u, NextId(notes), body, r, {}, FALSE)
    /\ UNCHANGED <<env_vars, search_vars, session_vars>>

UpdateNote(Bodies) ==
    /\ Idle
    /\ \E u \in Users, id \in NoteIds, body \in Bodies :
        LET r == update_user_note(DB, u, id, body, foreign_keys)
        IN  Commit(r)
            /\ Reply("update_note", u, id, body, r, TagsOf(tag_note_association, id), FALSE)
    /\ UNCHANGED <<env_vars, search_vars, session_vars>>

DeleteNote ==
    /\ Idle
    /\ \E u \in Users, id \in NoteIds :
        LET r == delete_user_note(DB, u, id)
        IN  Commit(r)
            /\ Reply("delete_note", u, id, <<>>, r, TagsOf(tag_note_association, id), FALSE)
    /\ UNCHANGED <<env_vars, search_vars, session_vars>>

CreateCollection(Bodies) ==
    /\ Idle
    /\ NextId(collections) \in CollectionIds
    /\ \E u \in Users, body \in Bodies :
        LET r == create_collection_for_user(DB, u, body, NextId(collections))
        IN  Commit(r)
            /\ Reply("create_collection", u, NextId(collections), body, r, {}, FALSE)
    /\ UNCHANGED <<env_vars, search_vars, session_vars>>

UpdateCollection(Bodies) ==
    /\ Idle
    /\ \E u \in Users, id \in CollectionIds, body \in Bodies :
        LET r == update_user_collection(DB, u, id, body)
        IN  Commit(r)
            /\ Reply("update_collection", u, id, body, r,
                     TagsOf(tag_collection_association, id), FALSE)
    /\ UNCHANGED <<env_vars, search_vars, session_vars>>

DeleteCollection ==
    /\ Idle
    /\ \E u \in Users, id \in CollectionIds :
        LET r == delete_user_collection(DB, u, id)
        IN  Commit(r)
            /\ Reply("delete_collection", u, id, <<>>, r,
                     TagsOf(tag_collection_association, id), FALSE)
    /\ UNCHANGED <<env_vars, search_vars, session_vars>>

CreateTag(Bodies) ==
    /\ Idle
    /\ NextId(tags) \in TagIds
    /\ \E u \in Users, body \in Bodies :
        LET r == create_tag_for_user(DB, u, body, NextId(tags))
        IN  Commit(r) /\ Reply("create_tag", u, NextId(tags), body, r, {}, FALSE)
    /\ UNCHANGED <<env_vars, search_vars, session_vars>>

UpdateTag(Bodies) ==
    /\ Idle
    /\ \E u \in Users, id \in TagIds, body \in Bodies :
        LET r == update_user_tag(DB, u, id, body)
        IN  Commit(r) /\ Reply("update_tag", u, id, body, r, {}, FALSE)
    /\ UNCHANGED <<env_vars, search_vars, session_vars>>

DeleteTag ==
    /\ Idle
    /\ \E u \in Users, id \in TagIds :
        LET r == delete_user_tag(DB, u, id)
        IN  Commit(r) /\ Reply("delete_tag", u, id, <<>>, r, {}, FALSE)
    /\ UNCHANGED <<env_vars, search_vars, session_vars>>

(***************************************************************************)
(* The client sends the PUT it has just been answered 200 for once more,   *)
(* before anything else happens: the same handler, the same arguments.     *)
(***************************************************************************)
ResendUpdate ==
    /\ resp.kind = "ok" /\ ~resp.resent
    /\ resp.op \in {"update_task", "update_note", "update_collection"}
    /\ LET r == CASE resp.op = "update_task" ->
                        update_user_task(DB, resp.user_id, resp.id, resp.body, foreign_keys)
                  [] resp.op = "update_note" ->
                        update_user_note(DB, resp.user_id, resp.id, resp.body, foreign_keys)
                  [] OTHER ->
                        update_user_collection(DB, resp.user_id, resp.id, resp.body)
           rows == CASE resp.op = "update_task" -> tag_task_association
                     [] resp.op = "update_note" -> tag_note_association
                     [] OTHER -> tag_collection_association
       IN  Commit(r)
           /\ Reply(resp.op, resp.user_id, resp.id, resp.body, r,
                    TagsOf(rows, resp.id), TRUE)
    /\ UNCHANGED <<env_vars, search_vars, session_vars>>

\* get_async_session: the request ends and its session is closed.
CloseSession ==
    /\ ~Idle
    /\ resp' = NoResp
    /\ UNCHANGED <<store_vars, env_vars, search_vars, session_vars>>

----------------------------------------------------------------------------
(***************************************************************************)
(* Search.  A search reads the committed store; the rows it reads carry    *)
(* the columns a search filters and orders by (status, priority,           *)
(* updated_at) next to those the mutating handlers write.                  *)
(***************************************************************************)
NoneStr == "None"           \* Optional[str] = None
TruthyStr(s) == s # NoneStr /\ s # ""

Min(a, b) == IF a <= b THEN a ELSE b
Max(a, b) == IF a >= b THEN a ELSE b

\* str.strip(): leading and trailing whitespace removed.
Whitespace == {" "}
RECURSIVE lstrip(_)
lstrip(s) == IF s # <<>> /\ Head(s) \in Whitespace THEN lstrip(Tail(s)) ELSE s
RECURSIVE rstrip(_)
rstrip(s) == IF s # <<>> /\ s[Len(s)] \in Whitespace
             THEN rstrip(SubSeq(s, 1, Len(s) - 1)) ELSE s
strip(s) == rstrip(lstrip(s))

\* "if not query or len(query.strip()) < 2": the guard of every search service.
query_too_short_unstripped(query) == query = <<>> \/ Len(query) < 2
query_too_short(query) == query = <<>> \/ Len(strip(query)) < 2

\* column.ilike(pattern): LIKE on the lower-cased operands; % matches any
\* run of characters, _ any one character; NULL matches nothing.
lower(c) == CASE c = "A" -> "a" [] c = "B" -> "b" [] OTHER -> c
RECURSIVE like(_, _)
like(pattern, s) ==
    IF pattern = <<>> THEN s = <<>>
    ELSE IF Head(pattern) = "%"
    THEN like(Tail(pattern), s) \/ (s # <<>> /\ like(pattern, Tail(s)))
    ELSE /\ s # <<>>
         /\ Head(pattern) = "_" \/ lower(Head(pattern)) = lower(Head(s))
         /\ like(Tail(pattern), Tail(s))
ilike(column, pattern) == column # NullStr /\ like(pattern, column)

\* search_term = f"%{query}%"
search_term(query) == <<"%">> \o query \o <<"%">>

(***************************************************************************)
(* ORDER BY updated_at DESC, then OFFSET skip and LIMIT limit when given.  *)
(* The statement names no second sort key: the store may return rows of    *)
(* equal updated_at in any order, so a query has a set of possible         *)
(* results.                                                                *)
(***************************************************************************)
order_by_updated_at_desc(table, ids) ==
    {o \in [1..Cardinality(ids) -> ids] :
        /\ \A i, j \in DOMAIN o : i # j => o[i] # o[j]
        /\ \A i, j \in DOMAIN o : i < j => table[o[i]].updated_at >= table[o[j]].updated_at}

offset_limit(rows, skip, limit) ==
    LET skipped == IF skip # None THEN SubSeq(rows, skip + 1, Len(rows)) ELSE rows
    IN  IF limit # None THEN SubSeq(skipped, 1, Min(limit, Len(skipped))) ELSE skipped

search_tasks(db, user_id, query, status, priority, collection_id, skip, limit) ==
    LET stmt == {id \in DOMAIN db.tasks :
                    /\ db.tasks[id].user_id = user_id
                    /\ TruthyStr(status) => db.tasks[id].status = status
                    /\ TruthyStr(priority) => db.tasks[id].priority = priority
                    /\ Truthy(collection_id) => db.tasks[id].collection_id = collection_id
                    /\ query # <<>> =>
                          \/ ilike(db.tasks[id].title, search_term(query))
                          \/ ilike(db.tasks[id].description, search_term(query))}
    IN  {offset_limit(o, skip, limit) : o \in order_by_updated_at_desc(db.tasks, stmt)}

search_notes(db, user_id, query, collection_id, skip, limit) ==
    LET stmt == {id \in DOMAIN db.notes :
                    /\ db.notes[id].user_id = user_id
                    /\ collection_id # None => db.notes[id].collection_id = collection_id
                    /\ query # <<>> =>
                          \/ ilike(db.notes[id].title, search_term(query))
                          \/ ilike(db.notes[id].description, search_term(query))}
    IN  {offset_limit(o, skip, limit) : o \in order_by_updated_at_desc(db.notes, stmt)}

search_collections(db, user_id, query, type_filter, skip, limit) ==
    LET stmt == {id \in DOMAIN db.collections :
                    /\ db.collections[id].user_id = user_id
                    /\ type_filter # NoneStr => db.collections[id].type = type_filter
                    /\ query # <<>> => ilike(db.collections[id].title, search_term(query))}
    IN  {offset_limit(o, skip, limit) : o \in order_by_updated_at_desc(db.collections, stmt)}

search_tags_of_any_user(db, user_id, query, skip, limit) ==
    LET stmt == {id \in DOMAIN db.tags :
                    query # <<>> => ilike(db.tags[id].title, search_term(query))}
    IN  {offset_limit(o, skip, limit) : o \in order_by_updated_at_desc(db.tags, stmt)}

search_tags(db, user_id, query, skip, limit) ==
    LET stmt == {id \in DOMAIN db.tags :
                    /\ db.tags[id].user_id = user_id
                    /\ query # <<>> => ilike(db.tags[id].title, search_term(query))}
    IN  {offset_limit(o, skip, limit) : o \in order_by_updated_at_desc(db.tags, stmt)}

(***************************************************************************)
(* The search services: the guard, then the repository with the stripped   *)
(* query.  results is the set of lists the store may answer with.          *)
(***************************************************************************)
Found(results) == [status |-> 200, kind |-> "ok", results |-> results]
ShortQuery == [status |-> 400, kind |-> "short_query", results |-> {}]

search_user_tasks(db, user_id, query, status, priority, collection_id, skip, limit) ==
    IF query_too_short(query) THEN ShortQuery
    ELSE Found(search_tasks(db, user_id, strip(query), status, priority,
                            collection_id, skip, limit))

search_user_notes(db, user_id, query, collection_id, skip, limit) ==
    IF query_too_short(query) THEN ShortQuery
    ELSE Found(search_notes(db, user_id, strip(query), collection_id, skip, limit))

search_user_collections(db, user_id, query, type_filter, skip, limit) ==
    IF query_too_short(query) THEN ShortQuery
    ELSE Found(search_collections(db, user_id, strip(query), type_filter, skip, limit))

search_user_tags(db, user_id, query, skip, limit) ==
    IF query_too_short(query) THEN ShortQuery
    ELSE Found(search_tags(db, user_id, strip(query), skip, limit))

(***************************************************************************)
(* XxxOut.model_validate(row): the DTO of a row.  tag_ids is the row's     *)
(* tag_ids property, the ids of its tags.                                  *)
(***************************************************************************)
TaskOut(db, id) ==
    [id |-> id, user_id |-> db.tasks[id].user_id, title |-> db.tasks[id].title,
     description |-> db.tasks[id].description, status |-> db.tasks[id].status,
     priority |-> db.tasks[id].priority, collection_id |-> db.tasks[id].collection_id,
     updated_at |-> db.tasks[id].updated_at,
     tag_ids |-> {t \in DOMAIN db.tags : <<t, id>> \in db.tag_task_association}]

NoteOut(db, id) ==
    [id |-> id, user_id |-> db.notes[id].user_id, title |-> db.notes[id].title,
     description |-> db.notes[id].description,
     collection_id |-> db.notes[id].collection_id,
     updated_at |-> db.notes[id].updated_at,
     tag_ids |-> {t \in DOMAIN db.tags : <<t, id>> \in db.tag_note_association}]

CollectionOut(db, id) ==
    [id |-> id, user_id |-> db.collections[id].user_id,
     title |-> db.collections[id].title,
     description |-> db.collections[id].description, type |-> db.collections[id].type,
     updated_at |-> db.collections[id].updated_at,
     tag_ids |-> {t \in DOMAIN db.tags : <<t, id>> \in db.tag_collection_association},
     task_count |-> 0, note_count |-> 0]

TagOut(db, id) ==
    [id |-> id, user_id |-> db.tags[id].user_id, title |-> db.tags[id].title,
     updated_at |-> db.tags[id].updated_at]

Kinds == {"tasks", "notes", "collections", "tags"}

model_validate(db, kind, id) ==
    CASE kind = "tasks" -> TaskOut(db, id)
      [] kind = "notes" -> NoteOut(db, id)
      [] kind = "collections" -> CollectionOut(db, id)
      [] OTHER -> TagOut(db, id)

(***************************************************************************)
(* global_search.                                                          *)
(***************************************************************************)
\* lst[:stop]
slice_from_end(lst, stop) == SubSeq(lst, Len(lst) - Min(stop, Len(lst)) + 1, Len(lst))
slice(lst, stop) ==
    SubSeq(lst, 1, IF stop < 0 THEN Max(Len(lst) + stop, 0) ELSE Min(stop, Len(lst)))

\* lst[start:stop], 0 <= start
slice_between(lst, start, stop) ==
    SubSeq(lst, start + 1,
           IF stop < 0 THEN Max(Len(lst) + stop, 0) ELSE Min(stop, Len(lst)))

total_count(tasks_results, notes_results, collections_results, tags_results) ==
    Len(tasks_results) + Len(notes_results) + Len(collections_results)
        + Len(tags_results)

\* The sub-search of a kind, as global_search calls it.
sub_search(db, kind, user_id, stripped_query) ==
    CASE kind = "tasks" ->
            search_user_tasks(db, user_id, stripped_query, NoneStr, NoneStr, None, None, None)
      [] kind = "notes" ->
            search_user_notes(db, user_id, stripped_query, None, None, None)
      [] kind = "collections" ->
            search_user_collections(db, user_id, stripped_query, NoneStr, None, None)
      [] OTHER ->
            search_user_tags(db, user_id, stripped_query, None, None)

\* await asyncio.gather(...) returns once every awaitable has returned, and
\* raises as soon as one of them has raised.
gather_settled(s) == \A k \in Kinds : s[k].st # "pending"
gather_returns(s) == \A k \in Kinds : s[k].st = "returned"
gather_raises(s) == \E k \in Kinds : s[k].st = "raised"

envelope_counting_returned(db, stripped_query, results, limit_per_type) ==
    [query |-> stripped_query,
     results |-> [k \in Kinds |->
                    [i \in DOMAIN slice(results[k], limit_per_type) |->
                        model_validate(db, k, slice(results[k], limit_per_type)[i])]],
     total_count |-> total_count(slice(results["tasks"], limit_per_type),
                                 slice(results["notes"], limit_per_type),
                                 slice(results["collections"], limit_per_type),
                                 slice(results["tags"], limit_per_type))]
envelope(db, stripped_query, results, limit_per_type) ==
    [query |-> stripped_query,
     results |-> [k \in Kinds |->
                    [i \in DOMAIN slice(results[k], limit_per_type) |->
                        model_validate(db, k, slice(results[k], limit_per_type)[i])]],
     total_count |-> total_count(results["tasks"], results["notes"],
                                 results["collections"], results["tags"])]

(***************************************************************************)
(* State of a search request.  gs is the request and where its handler     *)
(* is; sub[k] is the sub-search of kind k that global_search has handed    *)
(* to asyncio.gather; store_reads are the kinds whose SELECT was sent to   *)
(* the store; sresp is the response.                                       *)
(***************************************************************************)
NoFilters == <<>>
NoSearch == [op |-> "none", pc |-> "idle", user_id |-> 0, query |-> <<>>,
             filters |-> NoFilters, limit |-> 0, skip |-> 0]
NoSub == [k \in Kinds |-> [st |-> "none", error |-> "none", result |-> <<>>]]
NoSearchResp == [status |-> 0, kind |-> "none", body |-> <<>>]

SearchRequest(op, user_id, query, filters, skip, limit) ==
    [op |-> op, pc |-> "done", user_id |-> user_id, query |-> query,
     filters |-> filters, limit |-> limit, skip |-> skip]
SearchError(status, kind) == [status |-> status, kind |-> kind, body |-> <<>>]
SearchOk(body) == [status |-> 200, kind |-> "ok", body |-> body]

\* The DTOs of a list of rows.
Serialized(db, kind, rows) == [i \in DOMAIN rows |-> model_validate(db, kind, rows[i])]

(***************************************************************************)
(* GET /search/global.  The handler validates the query, hands the four    *)
(* sub-searches to asyncio.gather and waits; each sub-search runs its      *)
(* service on the shared session and returns its rows or raises; the       *)
(* handler then builds the envelope or lets the exception through.         *)
(***************************************************************************)
GlobalSearch(Queries, Limits) ==
    /\ gs.pc = "idle"
    /\ \E u \in Users, q \in Queries, limit \in Limits :
        IF query_too_short(q)
        THEN /\ gs' = SearchRequest("global_search", u, q, NoFilters, 0, limit)
             /\ sresp' = SearchError(400, "short_query")
             /\ sub' = sub
        ELSE /\ gs' = [SearchRequest("global_search", u, q, NoFilters, 0, limit)
                          EXCEPT !.pc = "gather"]
             /\ sub' = [k \in Kinds |->
                          [st |-> "pending", error |-> "none", result |-> <<>>]]
             /\ sresp' = sresp
    /\ UNCHANGED <<store_vars, env_vars, session_vars, resp, store_reads>>

SubSearchReturns(k) ==
    /\ gs.pc = "gather"
    /\ sub[k].st = "pending"
    /\ LET r == sub_search(DB, k, gs.user_id, strip(gs.query))
       IN  IF r.kind # "ok"
           THEN /\ sub' = [sub EXCEPT ![k] = [st |-> "raised", error |-> r.kind,
                                              result |-> <<>>]]
                /\ store_reads' = store_reads
           ELSE /\ \E rows \in r.results :
                    sub' = [sub EXCEPT ![k] = [st |-> "returned", error |-> "none",
                                               result |-> rows]]
                /\ store_reads' = store_reads \cup {k}
    /\ UNCHANGED <<store_vars, env_vars, session_vars, resp, gs, sresp>>

\* await self.db.execute(stmt) raises: the store or the session fails.
SubSearchRaises(k) ==
    /\ gs.pc = "gather"
    /\ sub[k].st = "pending"
    /\ ~query_too_short(strip(gs.query))
    /\ sub' = [sub EXCEPT ![k] = [st |-> "raised", error |-> "store", result |-> <<>>]]
    /\ store_reads' = store_reads \cup {k}
    /\ UNCHANGED <<store_vars, env_vars, session_vars, resp, gs, sresp>>

GatherReturns ==
    /\ gs.pc = "gather"
    /\ gather_returns(sub)
    /\ gs' = [gs EXCEPT !.pc = "done"]
    /\ sresp' = SearchOk(envelope(DB, strip(gs.query), [k \in Kinds |-> sub[k].result],
                                  gs.limit))
    /\ UNCHANGED <<store_vars, env_vars, session_vars, resp, sub, store_reads>>

GatherRaises ==
    /\ gs.pc = "gather"
    /\ gather_raises(sub)
    /\ gs' = [gs EXCEPT !.pc = "done"]
    /\ \E k \in Kinds :
        /\ sub[k].st = "raised"
        /\ sresp' = SearchError(IF sub[k].error = "short_query" THEN 400 ELSE 500,
                                sub[k].error)
    /\ UNCHANGED <<store_vars, env_vars, session_vars, resp, sub, store_reads>>

(***************************************************************************)
(* GET /tasks/search, /notes/search, /collections/search, /tags/search:    *)
(* the service's list, paginated in memory as rows[skip : skip + limit].   *)
(***************************************************************************)
SearchReply(op, kind, u, q, f, skip, limit, r) ==
    /\ gs' = SearchRequest(op, u, q, f, skip, limit)
    /\ IF r.kind # "ok"
       THEN /\ sresp' = SearchError(r.status, r.kind)
            /\ store_reads' = store_reads
       ELSE /\ \E rows \in r.results :
                sresp' = SearchOk(Serialized(DB, kind,
                                             slice_between(rows, skip, skip + limit)))
            /\ store_reads' = store_reads \cup {kind}
    /\ UNCHANGED <<store_vars, env_vars, session_vars, resp, sub>>

SearchTasks(Queries, Filters, Skips, Limits) ==
    /\ gs.pc = "idle"
    /\ \E u \in Users, q \in Queries, f \in Filters, skip \in Skips, limit \in Limits :
        SearchReply("search_tasks", "tasks", u, q, f, skip, limit,
                    search_user_tasks(DB, u, q, f.status, f.priority, f.collection_id,
                                      None, None))

SearchNotes(Queries, Filters, Skips, Limits) ==
    /\ gs.pc = "idle"
    /\ \E u \in Users, q \in Queries, f \in Filters, skip \in Skips, limit \in Limits :
        SearchReply("search_notes", "notes", u, q, f, skip, limit,
                    search_user_notes(DB, u, q, f.collection_id, None, None))

SearchCollections(Queries, Filters, Skips, Limits) ==
    /\ gs.pc = "idle"
    /\ \E u \in Users, q \in Queries, f \in Filters, skip \in Skips, limit \in Limits :
        SearchReply("search_collections", "collections", u, q, f, skip, limit,
                    search_user_collections(DB, u, q, f.type, None, None))

SearchTags(Queries, Skips, Limits) ==
    /\ gs.pc = "idle"
    /\ \E u \in Users, q \in Queries, skip \in Skips, limit \in Limits :
        SearchReply("search_tags", "tags", u, q, NoFilters, skip, limit,
                    search_user_tags(DB, u, q, None, None))

----------------------------------------------------------------------------
(***************************************************************************)
(* Concurrent requests.  get_async_session gives every request its own     *)
(* AsyncSession, and the handlers await between their statements, so the   *)
(* statements of two requests interleave.  The driver emits BEGIN before   *)
(* the first INSERT, UPDATE or DELETE of a session: from there to its      *)
(* commit or rollback the session holds the store's write lock (a second   *)
(* writer waits) and reads its own writes; a SELECT before it reads the    *)
(* committed store.  sessions[s].db is what session s has flushed.         *)
(*   pc: idle -> validated -> updated -> loaded -> flushed -> done         *)
(*       (update_user_task), idle -> checked -> flushed -> done (creates). *)
(*   last: the session's db.commit() is the latest one.                    *)
(*   raised: the pc at which a statement of a repository raised ("none":   *)
(*       no exception, or one raised by the service's own checks).         *)
(*   commits: how many times the request has called db.commit().           *)
(***************************************************************************)
MaxSessions == 2
Sessions == 1..MaxSessions

NoSession == [op |-> "none", pc |-> "idle", user_id |-> 0, id |-> 0, body |-> <<>>,
              loaded |-> {}, writes |-> FALSE, db |-> <<>>, status |-> 0,
              kind |-> "none", last |-> FALSE, raised |-> "none", commits |-> 0]
NoSessions == [s \in Sessions |-> NoSession]

WriteLockFree(s) == \A o \in Sessions \ {s} : ~sessions[o].writes
View(s) == IF sessions[s].writes THEN sessions[s].db ELSE DB

\* The request arrives: the session starts at the handler's first statement.
Request(op, user_id, id, body) ==
    [NoSession EXCEPT !.op = op, !.user_id = user_id, !.id = id, !.body = body]

\* An exception leaves the handler: get_async_session closes the session,
\* which rolls back what it had flushed.
Raise(s, r) ==
    [sessions EXCEPT ![s].pc = "done", ![s].status = r.status, ![s].kind = r.kind,
                     ![s].writes = FALSE, ![s].db = <<>>, ![s].raised = sessions[s].pc]

\* A statement that wrote: the session holds the lock and db is its view.
Flushed(s, pc, db) ==
    [sessions EXCEPT ![s].pc = pc, ![s].writes = TRUE, ![s].db = db]

StaleDataError(db) == HTTPException(db, 500, "stale", <<>>)

\* update_user_task up to its first write: the task, the collection and
\* the tag ids are checked against what the session reads.
validate_update_task(db, user_id, task_id, task_update) ==
    LET task == get_task_by_id_and_user(db, task_id, user_id)
        update_data == pop(task_update, "tag_ids")
        cid == update_data.collection_id
        checked == "collection_id" \in DOMAIN update_data /\ Truthy(cid)
        owned == get_collection_by_id_and_user(db, cid, user_id)
        tm == tags_missing(db, user_id, task_update)
    IN  IF task = {} THEN HTTPException(db, 404, "not_found", <<>>)
        ELSE IF checked /\ owned = {}
        THEN HTTPException(db, 404, "collection_not_found", <<>>)
        ELSE IF checked /\ task_type_rejected(db.collections[cid].type)
        THEN HTTPException(db, 400, "containment", <<>>)
        ELSE IF tm.failed THEN HTTPException(db, 400, "tags", tm.missing)
        ELSE Done(db, 200)

BeginUpdateTask(s, Us, Bodies) ==
    /\ sessions[s].pc = "idle"
    /\ \E u \in Us, id \in TaskIds, body \in Bodies :
        LET r == validate_update_task(DB, u, id, body)
            started == [sessions EXCEPT ![s] = Request("update_task", u, id, body)]
        IN  sessions' = IF r.kind # "ok"
                        THEN [started EXCEPT ![s].pc = "done", ![s].status = r.status,
                                             ![s].kind = r.kind]
                        ELSE [started EXCEPT ![s].pc = "validated"]
    /\ UNCHANGED <<store_vars, env_vars, resp, search_vars>>

\* task_repo.update_task: setattr and flush.  The unit of work sends an
\* UPDATE only if a column value has changed.
UpdateTaskRow(s) ==
    /\ sessions[s].pc = "validated" /\ sessions[s].op = "update_task"
    /\ LET base == View(s)
           id == sessions[s].id
           update_data == pop(sessions[s].body, "tag_ids")
           changed == apply_update(base.tasks[id], update_data) # base.tasks[id]
           r == update_task(base, id, update_data, foreign_keys)
       IN  IF ~changed THEN sessions' = [sessions EXCEPT ![s].pc = "updated"]
           ELSE /\ WriteLockFree(s)
                /\ sessions' = IF r.kind # "ok" THEN Raise(s, r)
                               ELSE Flushed(s, "updated", r.db)
    /\ UNCHANGED <<store_vars, env_vars, resp, search_vars>>

\* set_task_tags, first half: _load_tags, then refresh(task, ["tags"])
\* loads the tags the task has in what the session reads.
RefreshTags(s) ==
    /\ sessions[s].pc = "updated"
    /\ LET l == _load_tags(View(s), sessions[s].user_id, tag_ids_of(sessions[s].body), TRUE)
       IN  sessions' =
             IF ~has_tag_ids(sessions[s].body) THEN [sessions EXCEPT ![s].pc = "flushed"]
             ELSE IF ~l.ok THEN Raise(s, HTTPException(DB, 400, "tags", l.missing))
             ELSE [sessions EXCEPT ![s].pc = "loaded",
                                   ![s].loaded = TagsOf(View(s).tag_task_association,
                                                        sessions[s].id)]
    /\ UNCHANGED <<store_vars, env_vars, resp, search_vars>>

(***************************************************************************)
(* The flush of clear() and extend(tags) on a collection that was loaded   *)
(* as `loaded`: a DELETE for each tag that left, an INSERT for each that   *)
(* came, against the rows the store has now.  A DELETE that matches no     *)
(* row raises StaleDataError, an INSERT of an existing primary key         *)
(* IntegrityError.                                                         *)
(***************************************************************************)
flush_tags(rows, id, loaded, new_tags) ==
    LET deletes == {<<t, id>> : t \in loaded \ new_tags}
        inserts == {<<t, id>> : t \in new_tags \ loaded}
    IN  [dml |-> deletes \cup inserts # {},
         error |-> IF ~(deletes \subseteq rows) THEN "stale"
                   ELSE IF inserts \cap rows # {} THEN "integrity"
                   ELSE "none",
         rows |-> (rows \ deletes) \cup inserts]

\* set_task_tags, second half: clear, extend, flush.
FlushTags(s) ==
    /\ sessions[s].pc = "loaded"
    /\ LET base == View(s)
           f == flush_tags(base.tag_task_association, sessions[s].id, sessions[s].loaded,
                           Range(sessions[s].body.tag_ids))
       IN  IF ~f.dml THEN sessions' = [sessions EXCEPT ![s].pc = "flushed"]
           ELSE /\ WriteLockFree(s)
                /\ sessions' =
                     IF f.error = "stale" THEN Raise(s, StaleDataError(base))
                     ELSE IF f.error = "integrity" THEN Raise(s, IntegrityError(base))
                     ELSE Flushed(s, "flushed",
                                  [base EXCEPT !.tag_task_association = f.rows])
    /\ UNCHANGED <<store_vars, env_vars, resp, search_vars>>

\* create_tag_for_user: the duplicate check, then create_tag and its flush.
BeginCreateTag(s, Us, Bodies) ==
    /\ sessions[s].pc = "idle"
    /\ \E u \in Us, body \in Bodies :
        LET started == [sessions EXCEPT ![s] = Request("create_tag", u, 0, body)]
        IN  sessions' = IF get_tag_by_title_and_user(DB, body.title, u) # {}
                        THEN [started EXCEPT ![s].pc = "done", ![s].status = 400,
                                             ![s].kind = "duplicate_title"]
                        ELSE [started EXCEPT ![s].pc = "checked"]
    /\ UNCHANGED <<store_vars, env_vars, resp, search_vars>>

FlushCreateTag(s) ==
    /\ sessions[s].pc = "checked" /\ sessions[s].op = "create_tag"
    /\ WriteLockFree(s)
    /\ LET base == View(s)
           tag_data == sessions[s].body @@ [user_id |-> sessions[s].user_id]
           r == create_tag(base, tag_data, NextId(base.tags))
       IN  /\ r.kind = "ok" => NextId(base.tags) \in TagIds
           /\ sessions' = IF r.kind # "ok" THEN Raise(s, r)
                          ELSE [Flushed(s, "flushed", r.db)
                                    EXCEPT ![s].id = NextId(base.tags)]
    /\ UNCHANGED <<store_vars, env_vars, resp, search_vars>>

\* create_collection_for_user: the duplicate check and the tag check, then
\* create_collection, set_collection_tags and their flushes.
BeginCreateCollection(s, Us, Bodies) ==
    /\ sessions[s].pc = "idle"
    /\ \E u \in Us, body \in Bodies :
        LET started == [sessions EXCEPT ![s] = Request("create_collection", u, 0, body)]
            tm == tags_missing(DB, u, body)
        IN  sessions' = IF get_collection_by_title_and_user(DB, body.title, u) # {}
                        THEN [started EXCEPT ![s].pc = "done", ![s].status = 400,
                                             ![s].kind = "duplicate_title"]
                        ELSE IF tm.failed
                        THEN [started EXCEPT ![s].pc = "done", ![s].status = 400,
                                             ![s].kind = "tags"]
                        ELSE [started EXCEPT ![s].pc = "checked"]
    /\ UNCHANGED <<store_vars, env_vars, resp, search_vars>>

FlushCreateCollection(s) ==
    /\ sessions[s].pc = "checked" /\ sessions[s].op = "create_collection"
    /\ WriteLockFree(s)
    /\ LET base == View(s)
           body == sessions[s].body
           data == pop(dict(body, CollectionDefaults), "tag_ids")
                       @@ [user_id |-> sessions[s].user_id]
           new_id == NextId(base.collections)
           created == create_collection(base, data, new_id)
           tagged == set_collection_tags(created.db, new_id, tag_ids_of(body), "persistent")
           r == IF created.kind # "ok" \/ ~has_tag_ids(body) THEN created ELSE tagged
       IN  /\ r.kind = "ok" => new_id \in CollectionIds
           /\ sessions' = IF r.kind # "ok" THEN Raise(s, r)
                          ELSE [Flushed(s, "flushed", r.db) EXCEPT ![s].id = new_id]
    /\ UNCHANGED <<store_vars, env_vars, resp, search_vars>>

(***************************************************************************)
(* update_user_tag.  Begin: get_user_tag_by_id and, when the title differs *)
(* from the loaded tag's, the duplicate check; the session keeps the tag   *)
(* it loaded.  Flush: tag.title = title and flush; the unit of work sends  *)
(* an UPDATE only if the title differs from the loaded one, and an UPDATE  *)
(* that matches no row raises StaleDataError.                              *)
(***************************************************************************)
BeginUpdateTag(s, Us, Ids, Bodies) ==
    /\ sessions[s].pc = "idle"
    /\ \E u \in Us, id \in Ids, body \in Bodies :
        LET started == [sessions EXCEPT ![s] = Request("update_tag", u, id, body)]
        IN  sessions' =
              IF get_tag_by_id_and_user(DB, id, u) = {}
              THEN [started EXCEPT ![s].pc = "done", ![s].status = 404,
                                   ![s].kind = "not_found"]
              ELSE IF body.title # tags[id].title
                      /\ get_tag_by_title_and_user(DB, body.title, u) # {}
              THEN [started EXCEPT ![s].pc = "done", ![s].status = 400,
                                   ![s].kind = "duplicate_title"]
              ELSE [started EXCEPT ![s].pc = "checked", ![s].loaded = tags[id]]
    /\ UNCHANGED <<store_vars, env_vars, resp, search_vars>>

FlushUpdateTag(s) ==
    /\ sessions[s].pc = "checked" /\ sessions[s].op = "update_tag"
    /\ LET base == View(s)
           id == sessions[s].id
           title == sessions[s].body.title
       IN  IF title = sessions[s].loaded.title
           THEN sessions' = [sessions EXCEPT ![s].pc = "flushed"]
           ELSE /\ WriteLockFree(s)
                /\ sessions' =
                     IF id \notin DOMAIN base.tags THEN Raise(s, StaleDataError(base))
                     ELSE LET r == update_tag(base, id, title)
                          IN  IF r.kind # "ok" THEN Raise(s, r)
                              ELSE Flushed(s, "flushed", r.db)
    /\ UNCHANGED <<store_vars, env_vars, resp, search_vars>>

(***************************************************************************)
(* update_user_collection.  Begin: get_user_collection_by_id and the       *)
(* duplicate check.  Flush: update_collection (an UPDATE of the columns    *)
(* whose value differs from the loaded collection's) and, with tag_ids,    *)
(* set_collection_tags, up to the last flush before the commit.            *)
(***************************************************************************)
BeginUpdateCollection(s, Us, Ids, Bodies) ==
    /\ sessions[s].pc = "idle"
    /\ \E u \in Us, id \in Ids, body \in Bodies :
        LET started == [sessions EXCEPT ![s] = Request("update_collection", u, id, body)]
        IN  sessions' =
              IF get_collection_by_id_and_user(DB, id, u) = {}
              THEN [started EXCEPT ![s].pc = "done", ![s].status = 404,
                                   ![s].kind = "not_found"]
              ELSE IF body.title # collections[id].title
                      /\ get_collection_by_title_and_user(DB, body.title, u) # {}
              THEN [started EXCEPT ![s].pc = "done", ![s].status = 400,
                                   ![s].kind = "duplicate_title"]
              ELSE [started EXCEPT ![s].pc = "checked", ![s].loaded = collections[id]]
    /\ UNCHANGED <<store_vars, env_vars, resp, search_vars>>

FlushUpdateCollection(s) ==
    /\ sessions[s].pc = "checked" /\ sessions[s].op = "update_collection"
    /\ LET base == View(s)
           id == sessions[s].id
           body == sessions[s].body
           loaded == sessions[s].loaded
           update_data == pop(body, "tag_ids")
           changed == {k \in DOMAIN update_data : update_data[k] # loaded[k]}
           dirty == [k \in changed |-> update_data[k]]
           gone == id \notin DOMAIN base.collections
           updated == IF changed = {} THEN Done(base, 200)
                      ELSE update_collection(base, id, dirty)
           tagged == set_collection_tags(updated.db, id, tag_ids_of(body), "persistent")
           r == IF updated.kind # "ok" \/ ~has_tag_ids(body) THEN updated ELSE tagged
           writes == \/ changed # {}
                     \/ /\ has_tag_ids(body)
                        /\ tagged.kind = "integrity" \/ tagged.db # base
       IN  IF gone
           THEN sessions' = IF changed # {} \/ has_tag_ids(body)
                            THEN Raise(s, StaleDataError(base))
                            ELSE [sessions EXCEPT ![s].pc = "flushed"]
           ELSE IF ~writes
           THEN sessions' = IF r.kind # "ok" THEN Raise(s, r)
                            ELSE [sessions EXCEPT ![s].pc = "flushed"]
           ELSE /\ WriteLockFree(s)
                /\ sessions' = IF r.kind # "ok" THEN Raise(s, r)
                               ELSE Flushed(s, "flushed", r.db)
    /\ UNCHANGED <<store_vars, env_vars, resp, search_vars>>

(***************************************************************************)
(* delete_user_tag.  Begin: get_user_tag_by_id.  Flush: db.delete(tag) and *)
(* flush; the unit of work loads the tag's tasks, notes and collections,   *)
(* deletes their association rows and then the tag's row (a DELETE of a    *)
(* mapped row that matches nothing is only warned about).                  *)
(***************************************************************************)
BeginDeleteTag(s, Us, Ids) ==
    /\ sessions[s].pc = "idle"
    /\ \E u \in Us, id \in Ids :
        LET started == [sessions EXCEPT ![s] = Request("delete_tag", u, id, <<>>)]
        IN  sessions' =
              IF get_tag_by_id_and_user(DB, id, u) = {}
              THEN [started EXCEPT ![s].pc = "done", ![s].status = 404,
                                   ![s].kind = "not_found"]
              ELSE [started EXCEPT ![s].pc = "checked", ![s].loaded = tags[id]]
    /\ UNCHANGED <<store_vars, env_vars, resp, search_vars>>

FlushDeleteTag(s) ==
    /\ sessions[s].pc = "checked" /\ sessions[s].op = "delete_tag"
    /\ WriteLockFree(s)
    /\ sessions' = Flushed(s, "flushed", delete_tag(View(s), sessions[s].id))
    /\ UNCHANGED <<store_vars, env_vars, resp, search_vars>>

\* The status code of the route: 201 for a POST, 204 for a DELETE, else 200.
session_status(op) ==
    CASE op \in {"create_task", "create_tag", "create_collection"} -> 201
      [] op \in {"delete_tag"} -> 204
      [] OTHER -> 200

\* A db.commit() after any flush, the handler going on from where it is.
commit_after_any_flush(s) ==
    /\ sessions[s].pc \in {"updated", "flushed"}
    /\ Commit(IF sessions[s].writes THEN Done(sessions[s].db, 200) ELSE Done(DB, 200))
    /\ sessions' = [o \in Sessions |->
                      IF o = s
                      THEN [sessions[s] EXCEPT
                              !.pc = IF @ = "flushed" THEN "done" ELSE @,
                              !.kind = IF sessions[s].pc = "flushed" THEN "ok" ELSE @,
                              !.status = IF sessions[s].pc = "flushed"
                                         THEN session_status(sessions[s].op) ELSE @,
                              !.writes = FALSE, !.db = <<>>, !.last = TRUE,
                              !.commits = @ + 1]
                      ELSE [sessions[o] EXCEPT !.last = FALSE]]
    /\ UNCHANGED <<env_vars, resp, search_vars>>

\* db.commit(): what the session flushed becomes the committed store.
CommitSession(s) ==
    /\ sessions[s].pc = "flushed"
    /\ Commit(IF sessions[s].writes THEN Done(sessions[s].db, 200) ELSE Done(DB, 200))
    /\ sessions' = [o \in Sessions |->
                      IF o = s
                      THEN [sessions[s] EXCEPT
                              !.pc = "done", !.kind = "ok",
                              !.status = session_status(sessions[s].op),
                              !.writes = FALSE, !.db = <<>>, !.last = TRUE,
                              !.commits = @ + 1]
                      ELSE [sessions[o] EXCEPT !.last = FALSE]]
    /\ UNCHANGED <<env_vars, resp, search_vars>>

\* The response is sent and the session is closed.
EndRequest(s) ==
    /\ sessions[s].pc = "done"
    /\ sessions' = [sessions EXCEPT ![s] = NoSession]
    /\ UNCHANGED <<store_vars, env_vars, resp, search_vars>>

----------------------------------------------------------------------------
(***************************************************************************)
(* init_db(): create_all on an empty database.  The default DATABASE_URL   *)
(* is SQLite, which does not enforce foreign keys.                         *)
(***************************************************************************)
Init ==
    /\ tags = <<>>
    /\ collections = <<>>
    /\ tasks = <<>>
    /\ notes = <<>>
    /\ tag_task_association = {}
    /\ tag_note_association = {}
    /\ tag_collection_association = {}
    /\ foreign_keys = FALSE
    /\ now = 1
    /\ resp = NoResp
    /\ gs = NoSearch
    /\ sub = NoSub
    /\ store_reads = {}
    /\ sresp = NoSearchResp
    /\ sessions = NoSessions

Next ==
    \/ CreateTask(TaskCreateBodies)
    \/ UpdateTask(TaskUpdateBodies)
    \/ DeleteTask
    \/ CreateNote(NoteCreateBodies)
    \/ UpdateNote(NoteUpdateBodies)
    \/ DeleteNote
    \/ CreateCollection(CollectionCreateBodies)
    \/ UpdateCollection(CollectionUpdateBodies)
    \/ DeleteCollection
    \/ CreateTag(TagBodies)
    \/ UpdateTag(TagBodies)
    \/ DeleteTag
    \/ ResendUpdate
    \/ CloseSession

Spec == Init /\ [][Next]_vars

----------------------------------------------------------------------------
(***************************************************************************)
(* Searching a populated store.  SearchInit draws the committed store:     *)
(* tables whose ids are 1..k, as k creations leave them, with rows that    *)
(* match a query by title, by description only, or not at all, that belong *)
(* to either user, and whose updated_at are equal or different.            *)
(***************************************************************************)
MaxSearchTasks == 3
MaxSearchNotes == 2
MaxSearchCollections == 1
MaxSearchTags == 1
MaxLimit == 2
MaxSkip == 1

SearchTaskRows ==
    {[user_id |-> 1, title |-> T1, description |-> NullStr, collection_id |-> None,
      status |-> "TODO", priority |-> "MEDIUM", updated_at |-> 1],
     [user_id |-> 1, title |-> T2, description |-> T1, collection_id |-> None,
      status |-> "TODO", priority |-> "MEDIUM", updated_at |-> 2]}
SearchNoteRows ==
    {[user_id |-> 1, title |-> T1, description |-> NullStr, collection_id |-> None,
      updated_at |-> 1],
     [user_id |-> 2, title |-> T1, description |-> NullStr, collection_id |-> None,
      updated_at |-> 2]}
SearchCollectionRows ==
    {[user_id |-> 1, title |-> T1, description |-> NullStr, type |-> MIXED,
      updated_at |-> 1],
     [user_id |-> 1, title |-> T2, description |-> T1, type |-> MIXED,
      updated_at |-> 1]}
SearchTagRows ==
    {[user_id |-> u, title |-> T1, updated_at |-> 1] : u \in Users}

\* The tables of at most n rows; Unique: the table's UniqueConstraint.
Tables(Rows, n, Unique) ==
    {t \in UNION {[1..k -> Rows] : k \in 0..n} :
        Unique => \A i, j \in DOMAIN t :
                    i # j => <<t[i].user_id, t[i].title>> # <<t[j].user_id, t[j].title>>}

\* q: 2 to 200 characters; limit: 1 to 100; skip: from 0.
SearchQueries == {<<"a", "b">>, <<" ", "A", "B">>, <<"a", " ">>, <<" ", " ">>}
Limits == 1..MaxLimit
Skips == 0..MaxSkip

NoTaskFilters == {[status |-> NoneStr, priority |-> NoneStr, collection_id |-> None]}
NoNoteFilters == {[collection_id |-> None]}
NoCollectionFilters == {[type |-> NoneStr]}

SearchInit ==
    /\ tasks \in Tables(SearchTaskRows, MaxSearchTasks, FALSE)
    /\ notes \in Tables(SearchNoteRows, MaxSearchNotes, FALSE)
    /\ collections \in Tables(SearchCollectionRows, MaxSearchCollections, TRUE)
    /\ tags \in Tables(SearchTagRows, MaxSearchTags, TRUE)
    /\ tag_task_association = {}
    /\ tag_note_association = {}
    /\ tag_collection_association = {}
    /\ foreign_keys = FALSE
    /\ now = 1
    /\ resp = NoResp
    /\ gs = NoSearch
    /\ sub = NoSub
    /\ store_reads = {}
    /\ sresp = NoSearchResp
    /\ sessions = NoSessions

SearchNext ==
    \/ GlobalSearch(SearchQueries, Limits)
    \/ \E k \in Kinds : SubSearchReturns(k)
    \/ \E k \in Kinds : SubSearchRaises(k)
    \/ GatherReturns
    \/ GatherRaises
    \/ SearchTasks(SearchQueries, NoTaskFilters, Skips, Limits)
    \/ SearchNotes(SearchQueries, NoNoteFilters, Skips, Limits)
    \/ SearchCollections(SearchQueries, NoCollectionFilters, Skips, Limits)
    \/ SearchTags(SearchQueries, Skips, Limits)

SearchSpec == SearchInit /\ [][SearchNext]_vars

----------------------------------------------------------------------------
(***************************************************************************)
(* Properties of the store and of the handlers' responses (under Spec).    *)
(***************************************************************************)
TaggingOps == {"create_task", "update_task", "create_note", "update_note",
               "create_collection", "update_collection"}
TaskOps == {"create_task", "update_task"}
NoteOps == {"create_note", "update_note"}

\* The association rows of the entity kind an operation works on.
RowsOfOp(op) == IF op \in TaskOps THEN tag_task_association
                ELSE IF op \in NoteOps THEN tag_note_association
                ELSE tag_collection_association

\* C1: every tag linked to a task, a note or a collection has the user_id of
\* that entity.
C1_TagOwnerIsEntityOwner ==
    /\ \A r \in tag_task_association :
          (r[1] \in DOMAIN tags /\ r[2] \in DOMAIN tasks)
              => tags[r[1]].user_id = tasks[r[2]].user_id
    /\ \A r \in tag_note_association :
          (r[1] \in DOMAIN tags /\ r[2] \in DOMAIN notes)
              => tags[r[1]].user_id = notes[r[2]].user_id
    /\ \A r \in tag_collection_association :
          (r[1] \in DOMAIN tags /\ r[2] \in DOMAIN collections)
              => tags[r[1]].user_id = collections[r[2]].user_id

\* C1 witness: a collection update that asked for another user's tag was
\* refused while tasks, notes and collections of both users carry tags.
C1_Witness ==
    /\ resp.op = "update_collection" /\ resp.kind = "tags"
    /\ \E i \in Range(resp.missing) :
          i \in DOMAIN tags /\ tags[i].user_id # resp.user_id
    /\ tag_task_association # {}
    /\ tag_note_association # {}
    /\ tag_collection_association # {}

\* The containment rule as a property of the links that exist.
LinksRespectKind ==
    /\ \A n \in DOMAIN notes :
          notes[n].collection_id \in DOMAIN collections
              => collections[notes[n].collection_id].type # TASKS_ONLY
    /\ \A t \in DOMAIN tasks :
          tasks[t].collection_id \in DOMAIN collections
              => collections[tasks[t].collection_id].type # NOTES_ONLY

\* C2 as claimed: in every reachable state no note is linked to a tasks-only
\* collection and no task to a notes-only collection.
C2_Original == LinksRespectKind

\* C2 amended: a create or update that gives a task or note a collection_id
\* links it to a collection whose kind admits it at that moment, and only an
\* update_user_collection (a change of kind) makes an existing link break the rule.
C2_KindCheckedWhenLinked ==
    [][ /\ \A t \in DOMAIN tasks' :
              ( /\ t \notin DOMAIN tasks \/ tasks[t].collection_id # tasks'[t].collection_id
                /\ tasks'[t].collection_id \in DOMAIN collections' )
              => collections'[tasks'[t].collection_id].type # NOTES_ONLY
        /\ \A n \in DOMAIN notes' :
              ( /\ n \notin DOMAIN notes \/ notes[n].collection_id # notes'[n].collection_id
                /\ notes'[n].collection_id \in DOMAIN collections' )
              => collections'[notes'[n].collection_id].type # TASKS_ONLY
        /\ (LinksRespectKind /\ ~LinksRespectKind') => resp'.op = "update_collection"
      ]_vars

\* C2 witness: a note was moved into a notes-only collection, and a task that
\* was linked while the collection was mixed is still linked to it.
C2_Witness ==
    /\ resp.op = "update_note" /\ resp.kind = "ok"
    /\ "collection_id" \in DOMAIN resp.body
    /\ resp.body.collection_id \in DOMAIN collections
    /\ collections[resp.body.collection_id].type = NOTES_ONLY
    /\ notes[resp.id].collection_id = resp.body.collection_id
    /\ \E t \in DOMAIN tasks : tasks[t].collection_id = resp.body.collection_id

\* C3: after a create or update that supplied tag ids D, all owned by the
\* entity's owner, the entity's tag set is exactly the set of D.
C3_TagsReplacedExactly ==
    (resp.op \in TaggingOps /\ resp.kind = "ok" /\ has_tag_ids(resp.body))
        => TagsOf(RowsOfOp(resp.op), resp.id) = Range(resp.body.tag_ids)

\* C3 witness: an update replaced two tags by a strict, non-empty subset.
C3_Witness ==
    /\ resp.op = "update_task" /\ resp.kind = "ok" /\ has_tag_ids(resp.body)
    /\ Range(resp.body.tag_ids) # {}
    /\ Range(resp.body.tag_ids) \subseteq resp.prev_tags
    /\ Range(resp.body.tag_ids) # resp.prev_tags
    /\ TagsOf(tag_task_association, resp.id) = Range(resp.body.tag_ids)

\* C4: sending the same tag ids for the same entity a second time succeeds
\* and leaves the association rows (and the rest of the store) as the first
\* call left them.
C4_ReconcileIdempotent ==
    [][ (resp'.resent /\ has_tag_ids(resp'.body))
            => (resp'.kind = "ok" /\ UNCHANGED store_vars) ]_vars

\* C4 witness: a second, identical update of an entity that holds two tags.
C4_Witness ==
    /\ resp.resent /\ resp.kind = "ok" /\ has_tag_ids(resp.body)
    /\ Cardinality(Range(resp.body.tag_ids)) = 2
    /\ resp.prev_tags = Range(resp.body.tag_ids)
    /\ TagsOf(RowsOfOp(resp.op), resp.id) = Range(resp.body.tag_ids)

\* The requested tag ids that are not tags of the requesting user.
NotOwned(user_id, tag_ids) ==
    {i \in Range(tag_ids) : i \notin DOMAIN tags \/ tags[i].user_id # user_id}
StrictlyAscending(s) == \A i, j \in DOMAIN s : i < j => s[i] < s[j]

\* C5: tag validation fails with 400 exactly when a requested id is not a tag
\* of the user, and the ids it reports are those ids, each once, ascending.
C5_MissingTagsReported ==
    (resp.op \in TaggingOps)
        => /\ resp.kind = "tags"
                => /\ resp.status = 400
                   /\ has_tag_ids(resp.body)
                   /\ Range(resp.missing) = NotOwned(resp.user_id, resp.body.tag_ids)
                   /\ StrictlyAscending(resp.missing)
                   /\ resp.missing # <<>>
           /\ (has_tag_ids(resp.body) /\ NotOwned(resp.user_id, resp.body.tag_ids) # {})
                => resp.kind \in {"tags", "not_found", "collection_not_found",
                                  "containment", "duplicate_title"}
           /\ resp.kind = "ok" /\ has_tag_ids(resp.body)
                => NotOwned(resp.user_id, resp.body.tag_ids) = {}

\* C5 witness: the ids <<2, 1>> were requested, one missing and one owned by
\* another user, and both are reported in ascending order.
C5_Witness ==
    /\ resp.kind = "tags" /\ resp.body.tag_ids = <<2, 1>>
    /\ resp.missing = <<1, 2>>
    /\ \E i \in {1, 2} : i \in DOMAIN tags /\ tags[i].user_id # resp.user_id
    /\ \E i \in {1, 2} : i \notin DOMAIN tags

\* The collection a task or note request names, when the requester owns it.
NamesOwnedCollection ==
    /\ resp.op \in TaskOps \cup NoteOps
    /\ resp.kind # "not_found"
    /\ "collection_id" \in DOMAIN resp.body
    /\ resp.body.collection_id \in DOMAIN collections
    /\ collections[resp.body.collection_id].user_id = resp.user_id

\* C6: on create and on update, a note put in a tasks-only collection and a
\* task put in a notes-only collection are refused (400), and no other
\* combination of entity and collection kind is refused for its kind.
C6_ContainmentTable ==
    /\ NamesOwnedCollection =>
          LET type == collections[resp.body.collection_id].type
          IN  /\ (resp.op \in NoteOps /\ type = TASKS_ONLY)
                    => (resp.kind = "containment" /\ resp.status = 400)
              /\ (resp.op \in TaskOps /\ type = NOTES_ONLY)
                    => (resp.kind = "containment" /\ resp.status = 400)
    /\ resp.kind = "containment" =>
          /\ NamesOwnedCollection
          /\ LET type == collections[resp.body.collection_id].type
             IN  \/ resp.op \in NoteOps /\ type = TASKS_ONLY
                 \/ resp.op \in TaskOps /\ type = NOTES_ONLY

\* C6 witness: an existing note was refused a tasks-only collection.
C6_Witness ==
    /\ resp.op = "update_note" /\ resp.kind = "containment"
    /\ collections[resp.body.collection_id].type = TASKS_ONLY


----------------------------------------------------------------------------
(***************************************************************************)
(* Properties of the searches (under SearchSpec).                          *)
(***************************************************************************)
GlobalSearchAnswered == gs.op = "global_search" /\ gs.pc = "done"
EnvelopeReturned == GlobalSearchAnswered /\ sresp.kind = "ok"

\* The lists the store may answer the sub-search of a kind with, and their size.
FullResults(k) == sub_search(DB, k, gs.user_id, strip(gs.query)).results
FullSize(k) == Len(CHOOSE rows \in FullResults(k) : TRUE)

(***************************************************************************)
(* C7: the total_count of a global search's envelope is the sum of the     *)
(* sizes of the four full, untruncated per-kind results: whatever          *)
(* limit_per_type is, and also when fewer items are returned.              *)
(***************************************************************************)
C7_TotalCountIsSumOfFullResults ==
    EnvelopeReturned =>
        sresp.body.total_count = FullSize("tasks") + FullSize("notes")
                                    + FullSize("collections") + FullSize("tags")

\* limit_per_type 1 with 3 tasks, 2 notes, no collection and 1 tag matching:
\* total_count 6, one task and one note returned.
C7_Witness ==
    /\ EnvelopeReturned
    /\ gs.limit = 1
    /\ FullSize("tasks") = 3 /\ FullSize("notes") = 2
    /\ FullSize("collections") = 0 /\ FullSize("tags") = 1
    /\ sresp.body.total_count = 6
    /\ Len(sresp.body.results["tasks"]) = 1
    /\ Len(sresp.body.results["notes"]) = 1

(***************************************************************************)
(* C8: each list of the envelope is the first min(limit_per_type, n)       *)
(* elements, in order, of the full ordered result (of size n) that the     *)
(* sub-search of its kind returned, whatever the other kinds' results are. *)
(***************************************************************************)
C8_ListsArePrefixesOfFullResults ==
    EnvelopeReturned =>
        \A k \in Kinds :
            LET full == sub[k].result
                list == sresp.body.results[k]
            IN  /\ full \in FullResults(k)
                /\ Len(list) = Min(gs.limit, Len(full))
                /\ \A i \in 1..Len(list) : list[i] = model_validate(DB, k, full[i])

\* Three tasks found, the most recently updated not the first created, cut to
\* one; the only note found is returned.
C8_Witness ==
    /\ EnvelopeReturned
    /\ gs.limit = 1
    /\ Len(sub["tasks"].result) = 3
    /\ Len(sresp.body.results["tasks"]) = 1
    /\ sresp.body.results["tasks"][1].id = 3
    /\ tasks[3].updated_at > tasks[1].updated_at
    /\ Len(sub["notes"].result) = 1
    /\ Len(sresp.body.results["notes"]) = 1

(***************************************************************************)
(* C9: global_search returns an envelope only when all four sub-searches   *)
(* have returned; once a sub-search has raised, global_search fails with   *)
(* the error of a sub-search that raised and returns no envelope, not even *)
(* one with the results of the others.                                     *)
(***************************************************************************)
C9_AllOrNothingJoin ==
    GlobalSearchAnswered =>
        /\ sresp.kind = "ok" => \A k \in Kinds : sub[k].st = "returned"
        /\ (\E k \in Kinds : sub[k].st = "raised") =>
                /\ sresp.kind \in {sub[k].error : k \in {j \in Kinds : sub[j].st = "raised"}}
                /\ sresp.status >= 400
                /\ sresp.body = <<>>

\* The tags sub-search raised after the other three had returned rows.
C9_Witness ==
    /\ GlobalSearchAnswered
    /\ sub["tags"].st = "raised"
    /\ \A k \in Kinds \ {"tags"} : sub[k].st = "returned" /\ sub[k].result # <<>>
    /\ sresp.status = 500

----------------------------------------------------------------------------
(***************************************************************************)
(* Two users working on one store.  Every handler is there; the requests   *)
(* name the title that makes one user's rows match what the other          *)
(* searches for.                                                           *)
(***************************************************************************)
SharedTaskBodies == Optional({[title |-> T1]}, "collection_id", CollectionIds)
SharedNoteBodies == Optional({[title |-> T1]}, "tag_ids", {<<1>>})
SharedCollectionBodies == {[title |-> T1]}

SharedNext ==
    \/ CreateTask(SharedTaskBodies)
    \/ UpdateTask(SharedTaskBodies)
    \/ DeleteTask
    \/ CreateNote(SharedNoteBodies)
    \/ UpdateNote(SharedNoteBodies)
    \/ DeleteNote
    \/ CreateCollection(SharedCollectionBodies)
    \/ UpdateCollection(SharedCollectionBodies)
    \/ DeleteCollection
    \/ CreateTag(TagBodies)
    \/ UpdateTag(TagBodies)
    \/ DeleteTag
    \/ CloseSession

SharedSpec == Init /\ [][SharedNext]_vars

----------------------------------------------------------------------------
(***************************************************************************)
(* What the searches answer a user, as a function of the committed store:  *)
(* for each kind the lists of DTOs its search may return, and the          *)
(* envelopes global_search may build from them.                            *)
(***************************************************************************)
ValidQueries == {q \in SearchQueries : Len(strip(q)) >= 2}

Answers(db, k, u, q) == {Serialized(db, k, rows) : rows \in sub_search(db, k, u, q).results}

Envelopes(db, u, q, limit) ==
    {envelope(db, strip(q),
              [k \in Kinds |-> CASE k = "tasks" -> ts [] k = "notes" -> ns
                                  [] k = "collections" -> cs [] OTHER -> gs_],
              limit) :
        ts \in sub_search(db, "tasks", u, strip(q)).results,
        ns \in sub_search(db, "notes", u, strip(q)).results,
        cs \in sub_search(db, "collections", u, strip(q)).results,
        gs_ \in sub_search(db, "tags", u, strip(q)).results}

SearchView(db, u) ==
    [q \in ValidQueries |->
        [lists |-> [k \in Kinds |-> Answers(db, k, u, q)],
         global |-> [limit \in Limits |-> Envelopes(db, u, q, limit)]]]

(***************************************************************************)
(* C11: every entity a per-entity search or global_search returns to user  *)
(* U is owned by U, and a request of another user (a creation, a           *)
(* modification or a deletion, committed or not) leaves everything the     *)
(* searches answer U, items and total_count, as it was.                    *)
(***************************************************************************)
C11_SearchIsUserIsolated ==
    [][\A u \in Users :
        /\ \A q \in ValidQueries, k \in Kinds :
              \A list \in Answers(DB', k, u, q) :
                  \A i \in DOMAIN list : list[i].user_id = u
        /\ \A q \in ValidQueries, limit \in Limits :
              \A e \in Envelopes(DB', u, q, limit) :
                  \A k \in Kinds : \A i \in DOMAIN e.results[k] : e.results[k][i].user_id = u
        /\ resp'.user_id # u => SearchView(DB', u) = SearchView(DB, u)]_vars

\* User 2 has created a tag "ab" while user 1 has a tag "ab" and a task "ab".
C11_Witness ==
    /\ resp.op = "create_tag" /\ resp.kind = "ok" /\ resp.user_id = 2
    /\ \E t \in DOMAIN tags : tags[t].user_id = 1 /\ tags[t].title = tags[resp.id].title
    /\ \E t \in DOMAIN tasks : tasks[t].user_id = 1
    /\ \E q \in ValidQueries : \E list \in Answers(DB, "tags", 1, q) : list # <<>>

----------------------------------------------------------------------------
(***************************************************************************)
(* Matching.  MatchInit draws a store with one row of each kind, all with  *)
(* the same owner, title and (where the kind has one) description; the     *)
(* four per-entity searches are sent queries that occur inside a text, in  *)
(* another case, nowhere, or that hold a character LIKE reads as a         *)
(* wildcard.                                                               *)
(***************************************************************************)
T3 == <<"x", "A", "b", "y">>
MatchTitles == {T3, <<"b", "a">>}
MatchDescriptions == {NullStr, T3, T2}
MatchQueries == {<<"a", "b">>, <<"a", "B", " ">>, <<"x", "x">>, <<"a", "_">>}

MatchInit ==
    /\ \E u \in Users, t \in MatchTitles, d \in MatchDescriptions :
        /\ tasks = <<[user_id |-> u, title |-> t, description |-> d,
                      collection_id |-> None, status |-> "TODO", priority |-> "MEDIUM",
                      updated_at |-> 1]>>
        /\ notes = <<[user_id |-> u, title |-> t, description |-> d,
                      collection_id |-> None, updated_at |-> 1]>>
        /\ collections = <<[user_id |-> u, title |-> t, description |-> d,
                            type |-> MIXED, updated_at |-> 1]>>
        /\ tags = <<[user_id |-> u, title |-> t, updated_at |-> 1]>>
    /\ tag_task_association = {}
    /\ tag_note_association = {}
    /\ tag_collection_association = {}
    /\ foreign_keys = FALSE
    /\ now = 1
    /\ resp = NoResp
    /\ gs = NoSearch
    /\ sub = NoSub
    /\ store_reads = {}
    /\ sresp = NoSearchResp
    /\ sessions = NoSessions

MatchNext ==
    \/ SearchTasks(MatchQueries, NoTaskFilters, Skips, Limits)
    \/ SearchNotes(MatchQueries, NoNoteFilters, Skips, Limits)
    \/ SearchCollections(MatchQueries, NoCollectionFilters, Skips, Limits)
    \/ SearchTags(MatchQueries, Skips, Limits)

MatchSpec == MatchInit /\ [][MatchNext]_vars

\* The kind a per-entity search request searches, and that kind's table.
SearchedKind == CASE gs.op = "search_tasks" -> "tasks"
                  [] gs.op = "search_notes" -> "notes"
                  [] gs.op = "search_collections" -> "collections"
                  [] gs.op = "search_tags" -> "tags"
TableOf(k) == CASE k = "tasks" -> tasks [] k = "notes" -> notes
                [] k = "collections" -> collections [] k = "tags" -> tags
EntitySearchAnswered ==
    gs.op \in {"search_tasks", "search_notes", "search_collections", "search_tags"}

\* The text q occurs in the text s, letter case aside.
Contains(s, q) ==
    /\ s # NullStr
    /\ \E i \in 1..(Len(s) - Len(q) + 1) :
          \A j \in 1..Len(q) : lower(s[i + j - 1]) = lower(q[j])

\* The page rows[skip : skip + limit] the router returns of a list.
PageOf(k, rows) == Serialized(DB, k, slice_between(rows, gs.skip, gs.skip + gs.limit))

(***************************************************************************)
(* C12: a search without filters answers, and never with an error, the     *)
(* requester's rows in which the trimmed query occurs case-insensitively:  *)
(* in the title or the description of a task or a note, in the title only  *)
(* of a collection or a tag; all of them and no other row.                 *)
(***************************************************************************)
C12_ReturnedIffQueryOccurs ==
    (EntitySearchAnswered /\ Len(strip(gs.query)) >= 2) =>
        LET k == SearchedKind
            q == strip(gs.query)
            expected == {id \in DOMAIN TableOf(k) :
                            /\ TableOf(k)[id].user_id = gs.user_id
                            /\ \/ Contains(TableOf(k)[id].title, q)
                               \/ /\ k \in {"tasks", "notes"}
                                  /\ Contains(TableOf(k)[id].description, q)}
        IN  /\ sresp.kind = "ok"
            /\ \E rows \in order_by_updated_at_desc(TableOf(k), expected) :
                    sresp.body = PageOf(k, rows)

----------------------------------------------------------------------------
(***************************************************************************)
(* Filters.  FilterInit draws user 1's tasks, notes and collection with    *)
(* every value of the filtered columns, collection_id 0 included (a row    *)
(* create_task stores unchecked when foreign keys are not enforced); a     *)
(* row names collection 1 only if its owner owns that collection and its   *)
(* kind admits the row.  The searches are sent every filter, set or not.   *)
(***************************************************************************)
MaxFilterTasks == 2
MaxFilterNotes == 2
MaxFilterCollections == 1
FilterCollectionIds == {None, 0, 1}
TaskStatuses == {"TODO", "DONE"}
TaskPriorities == {"MEDIUM", "LOW"}

FilterTaskRows ==
    {[user_id |-> 1, title |-> T1, description |-> NullStr, collection_id |-> c,
      status |-> st, priority |-> p, updated_at |-> 1] :
        c \in FilterCollectionIds, st \in TaskStatuses, p \in TaskPriorities}
FilterNoteRows ==
    {[user_id |-> 1, title |-> T1, description |-> NullStr, collection_id |-> c,
      updated_at |-> 1] : c \in FilterCollectionIds}
FilterCollectionRows ==
    {[user_id |-> 1, title |-> T1, description |-> NullStr, type |-> ty,
      updated_at |-> 1] : ty \in CollectionType}

TaskFilters == [status : {NoneStr} \cup TaskStatuses,
                priority : {NoneStr} \cup TaskPriorities,
                collection_id : FilterCollectionIds]
NoteFilters == [collection_id : FilterCollectionIds]
CollectionFilters == [type : {NoneStr} \cup CollectionType]
FilterQueries == {T1}

FilterInit ==
    /\ tasks \in Tables(FilterTaskRows, MaxFilterTasks, FALSE)
    /\ notes \in Tables(FilterNoteRows, MaxFilterNotes, FALSE)
    /\ collections \in Tables(FilterCollectionRows, MaxFilterCollections, TRUE)
    /\ \A id \in DOMAIN tasks : tasks[id].collection_id \in DOMAIN collections =>
            collections[tasks[id].collection_id].type # NOTES_ONLY
    /\ \A id \in DOMAIN notes : notes[id].collection_id \in DOMAIN collections =>
            collections[notes[id].collection_id].type # TASKS_ONLY
    /\ \A id \in DOMAIN tasks : tasks[id].collection_id \in DOMAIN collections \cup {None, 0}
    /\ \A id \in DOMAIN notes : notes[id].collection_id \in DOMAIN collections \cup {None, 0}
    /\ tags = <<>>
    /\ tag_task_association = {}
    /\ tag_note_association = {}
    /\ tag_collection_association = {}
    /\ foreign_keys = FALSE
    /\ now = 1
    /\ resp = NoResp
    /\ gs = NoSearch
    /\ sub = NoSub
    /\ store_reads = {}
    /\ sresp = NoSearchResp
    /\ sessions = NoSessions

FilterNext ==
    \/ SearchTasks(FilterQueries, TaskFilters, {0}, {MaxLimit})
    \/ SearchNotes(FilterQueries, NoteFilters, {0}, {MaxLimit})
    \/ SearchCollections(FilterQueries, CollectionFilters, {0}, {MaxLimit})

FilterSpec == FilterInit /\ [][FilterNext]_vars

\* The filters a request supplies with a value, as (column, value) pairs.
Unset(c) == IF c = "collection_id" THEN None ELSE NoneStr
Supplied(f) == {<<c, f[c]>> : c \in {c \in DOMAIN f : f[c] # Unset(c)}}

\* The requester's rows of kind k that have every supplied value and in
\* which the trimmed query occurs.
Selected(k, f) ==
    {id \in DOMAIN TableOf(k) :
        /\ TableOf(k)[id].user_id = gs.user_id
        /\ \A cv \in Supplied(f) : TableOf(k)[id][cv[1]] = cv[2]
        /\ \/ Contains(TableOf(k)[id].title, strip(gs.query))
           \/ /\ k \in {"tasks", "notes"}
              /\ Contains(TableOf(k)[id].description, strip(gs.query))}

(***************************************************************************)
(* C13: a search answers the rows that have exactly the supplied value in  *)
(* every column whose filter is supplied, collection_id = 0 included, and  *)
(* a filter left unset does not narrow the answer.                         *)
(***************************************************************************)
C13_SuppliedFiltersApplyExactly ==
    (gs.op \in {"search_tasks", "search_notes", "search_collections"}
        /\ sresp.kind = "ok") =>
        /\ \A i \in DOMAIN sresp.body : \A cv \in Supplied(gs.filters) :
                sresp.body[i][cv[1]] = cv[2]
        /\ \E rows \in order_by_updated_at_desc(TableOf(SearchedKind),
                                                 Selected(SearchedKind, gs.filters)) :
                sresp.body = PageOf(SearchedKind, rows)

----------------------------------------------------------------------------
\* A list of DTOs runs by updated_at descending and, where equal, by id
\* descending.
NewestFirstThenIdDescending(dtos) ==
    \A i, j \in DOMAIN dtos : i < j =>
        \/ dtos[i].updated_at > dtos[j].updated_at
        \/ dtos[i].updated_at = dtos[j].updated_at /\ dtos[i].id > dtos[j].id

(***************************************************************************)
(* C14: every list a search returns, the page of a per-entity search and   *)
(* each per-kind list of a global search's envelope, is ordered by         *)
(* updated_at descending with rows of equal updated_at by id descending.   *)
(***************************************************************************)
C14_OrderedByTimestampThenId ==
    /\ (EntitySearchAnswered /\ sresp.kind = "ok") =>
            NewestFirstThenIdDescending(sresp.body)
    /\ EnvelopeReturned =>
            \A k \in Kinds : NewestFirstThenIdDescending(sresp.body.results[k])

----------------------------------------------------------------------------
\* The rows of a table whose collection_id is not id.
Outside(table, id) ==
    [x \in {x \in DOMAIN table : table[x].collection_id # id} |-> table[x]]

----------------------------------------------------------------------------
(***************************************************************************)
(* Attaching.  Two users create and delete collections of every kind and   *)
(* create and update tasks and notes whose collection_id is unset, null,   *)
(* 0 (an int that is no row's id), or the id of a collection that may be   *)
(* absent, the requester's or the other user's.                            *)
(***************************************************************************)
AttachCollectionIds == {0} \cup CollectionIds
AttachCreateBodies == Optional({[title |-> T1]}, "collection_id", AttachCollectionIds)
AttachUpdateBodies ==
    Optional({[title |-> T1]}, "collection_id", {None} \cup AttachCollectionIds)
AttachCollectionBodies == {[title |-> T1, type |-> ty] : ty \in CollectionType}

AttachNext ==
    \/ CreateCollection(AttachCollectionBodies)
    \/ DeleteCollection
    \/ CreateTask(AttachCreateBodies)
    \/ UpdateTask(AttachUpdateBodies)
    \/ CreateNote(AttachCreateBodies)
    \/ UpdateNote(AttachUpdateBodies)
    \/ CloseSession

AttachSpec == Init /\ [][AttachNext]_vars

\* A task or note request that sets collection_id to a non-null value.
SetsCollection ==
    /\ resp.op \in TaskOps \cup NoteOps
    /\ "collection_id" \in DOMAIN resp.body
    /\ resp.body.collection_id # None

\* The two checks passed: the collection is the requester's and its kind
\* admits the entity.
CollectionChecksPass ==
    /\ resp.body.collection_id \in DOMAIN collections
    /\ collections[resp.body.collection_id].user_id = resp.user_id
    /\ resp.op \in TaskOps => collections[resp.body.collection_id].type # NOTES_ONLY
    /\ resp.op \in NoteOps => collections[resp.body.collection_id].type # TASKS_ONLY

(***************************************************************************)
(* C16: a task or note create or update that sets collection_id to a       *)
(* non-null value goes through the ownership and the kind check, so it     *)
(* succeeds only when both pass; one that sets it to null or does not      *)
(* mention it never fails with collection-not-found or containment.        *)
(***************************************************************************)
C16_ChecksRunExactlyWhenCollectionSet ==
    /\ (SetsCollection /\ resp.kind = "ok") => CollectionChecksPass
    /\ (resp.op \in TaskOps \cup NoteOps /\ ~SetsCollection) =>
            resp.kind \notin {"collection_not_found", "containment"}

\* The entity of the request exists and the collection the request names
\* does not exist or is another user's.
NamesForeignCollection ==
    /\ SetsCollection
    /\ resp.kind # "not_found"
    /\ \/ resp.body.collection_id \notin DOMAIN collections
       \/ collections[resp.body.collection_id].user_id # resp.user_id

(***************************************************************************)
(* C17: attaching a task or note to a collection id that does not exist    *)
(* or is another user's fails with 404 whatever that collection's kind;    *)
(* the containment error (400) is answered only for a collection that      *)
(* exists and is the requester's.                                          *)
(***************************************************************************)
C17_ForeignCollectionIsNotFound ==
    /\ NamesForeignCollection =>
            (resp.kind = "collection_not_found" /\ resp.status = 404)
    /\ resp.kind = "containment" =>
            /\ resp.status = 400
            /\ SetsCollection
            /\ resp.body.collection_id \in DOMAIN collections
            /\ collections[resp.body.collection_id].user_id = resp.user_id

----------------------------------------------------------------------------
(***************************************************************************)
(* Abandonment.  A request that is cancelled at an await before its        *)
(* db.commit() leaves its handler by an exception like a failed one:       *)
(* get_async_session closes the session, and what the session had flushed  *)
(* (r.db) is rolled back.                                                  *)
(***************************************************************************)
Abandoned(r) == IF r.kind = "ok" THEN [r EXCEPT !.kind = "abandoned", !.status = 0] ELSE r

AbandonCreateTask(Bodies) ==
    /\ Idle
    /\ NextId(tasks) \in TaskIds
    /\ \E u \in Users, body \in Bodies :
        LET r == Abandoned(create_task_for_user(DB, u, body, NextId(tasks), foreign_keys))
        IN  Commit(r) /\ Reply("create_task", u, NextId(tasks), body, r, {}, FALSE)
    /\ UNCHANGED <<env_vars, search_vars, session_vars>>

AbandonUpdateCollection(Bodies) ==
    /\ Idle
    /\ \E u \in Users, id \in CollectionIds, body \in Bodies :
        LET r == Abandoned(update_user_collection(DB, u, id, body))
        IN  Commit(r)
            /\ Reply("update_collection", u, id, body, r,
                     TagsOf(tag_collection_association, id), FALSE)
    /\ UNCHANGED <<env_vars, search_vars, session_vars>>

AtomicTaskBodies ==
    Optional(Optional({[title |-> T1]}, "collection_id", CollectionIds),
             "tag_ids", {<<1>>})
AtomicCollectionBodies ==
    Optional(Optional({[title |-> t] : t \in {T1, T2}},
                      "type", {TASKS_ONLY, NOTES_ONLY}),
             "tag_ids", {<<1>>, <<2>>})
AtomicTagBodies == {[title |-> T1]}

AtomicNext ==
    \/ CreateTask(AtomicTaskBodies)
    \/ UpdateTask(AtomicTaskBodies)
    \/ CreateNote(AtomicTaskBodies)
    \/ UpdateNote(AtomicTaskBodies)
    \/ CreateCollection(AtomicCollectionBodies)
    \/ UpdateCollection(AtomicCollectionBodies)
    \/ CreateTag(AtomicTagBodies)
    \/ DeleteTag
    \/ AbandonCreateTask(AtomicTaskBodies)
    \/ AbandonUpdateCollection(AtomicCollectionBodies)
    \/ CloseSession

AtomicSpec == Init /\ [][AtomicNext]_vars

(***************************************************************************)
(* C18: a create or update that does not reach its commit, because it      *)
(* failed (entity or collection not found, containment, missing or         *)
(* unowned tag, duplicate title, a constraint of the store) or was         *)
(* abandoned, leaves every table of the store as it was: no row, no field  *)
(* change and no tag link of it is visible afterwards.                     *)
(***************************************************************************)
C18_FailedRequestLeavesNoWrite ==
    [][(resp'.op # "none" /\ resp'.kind # "ok") => store_vars' = store_vars]_vars

\* An update_user_collection that was to change title and kind failed in
\* the tag reconciliation; the collection has its former title, kind and tags.
C18_Witness ==
    /\ resp.op = "update_collection" /\ resp.kind = "tags"
    /\ resp.body.title # collections[resp.id].title
    /\ "type" \in DOMAIN resp.body /\ resp.body.type # collections[resp.id].type
    /\ resp.prev_tags # {}
    /\ TagsOf(tag_collection_association, resp.id) = resp.prev_tags

----------------------------------------------------------------------------
(***************************************************************************)
(* Two requests of user 1 in flight at once.  ConcurrentInit draws a       *)
(* store the handlers can have built: user 1 has no tag or the tags 1 and  *)
(* 2, no task or task 1, and task 1 has any of the tags; a request         *)
(* updates task 1 (same or new title, a tag set) or creates a tag or a     *)
(* collection titled T1.                                                   *)
(***************************************************************************)
ConcurrentUsers == {1}
ConcurrentTagRows ==
    <<[user_id |-> 1, title |-> T1, updated_at |-> 1],
      [user_id |-> 1, title |-> T2, updated_at |-> 1]>>
ConcurrentTaskRows ==
    <<[user_id |-> 1, title |-> T1, description |-> NullStr, collection_id |-> None,
       status |-> "TODO", priority |-> "MEDIUM", updated_at |-> 1]>>
ConcurrentUpdateBodies ==
    {[title |-> t, tag_ids |-> l] : t \in {T1, T2}, l \in {<<>>, <<1>>, <<2>>, <<1, 2>>}}
ConcurrentTagBodies == {[title |-> T1]}
ConcurrentCollectionBodies == {[title |-> T1]}

ConcurrentInit ==
    /\ tags \in {<<>>, ConcurrentTagRows}
    /\ tasks \in {<<>>, ConcurrentTaskRows}
    /\ tag_task_association \in SUBSET {<<t, k>> : t \in DOMAIN tags, k \in DOMAIN tasks}
    /\ collections = <<>>
    /\ notes = <<>>
    /\ tag_note_association = {}
    /\ tag_collection_association = {}
    /\ foreign_keys = FALSE
    /\ now = 1
    /\ resp = NoResp
    /\ gs = NoSearch
    /\ sub = NoSub
    /\ store_reads = {}
    /\ sresp = NoSearchResp
    /\ sessions = NoSessions

ConcurrentNext ==
    \/ \E s \in Sessions : BeginUpdateTask(s, ConcurrentUsers, ConcurrentUpdateBodies)
    \/ \E s \in Sessions : UpdateTaskRow(s)
    \/ \E s \in Sessions : RefreshTags(s)
    \/ \E s \in Sessions : FlushTags(s)
    \/ \E s \in Sessions : BeginCreateTag(s, ConcurrentUsers, ConcurrentTagBodies)
    \/ \E s \in Sessions : FlushCreateTag(s)
    \/ \E s \in Sessions : BeginCreateCollection(s, ConcurrentUsers,
                                                 ConcurrentCollectionBodies)
    \/ \E s \in Sessions : FlushCreateCollection(s)
    \/ \E s \in Sessions : CommitSession(s)
    \/ \E s \in Sessions : EndRequest(s)

ConcurrentSpec == ConcurrentInit /\ [][ConcurrentNext]_vars

\* Session s is an update_user_task that set the task's tags and committed.
TagUpdateCommitted(s) ==
    /\ sessions[s].op = "update_task"
    /\ sessions[s].pc = "done" /\ sessions[s].kind = "ok"
    /\ has_tag_ids(sessions[s].body)

(***************************************************************************)
(* C19: when two requests that set the tags of the same task have both     *)
(* committed, the task's tags are exactly the set the later commit         *)
(* asked for.                                                              *)
(***************************************************************************)
C19_LaterCommitDecidesTagSet ==
    \A s, o \in Sessions :
        ( /\ s # o
          /\ TagUpdateCommitted(s) /\ TagUpdateCommitted(o)
          /\ sessions[s].id = sessions[o].id
          /\ sessions[s].last )
        => TagsOf(tag_task_association, sessions[s].id) = Range(sessions[s].body.tag_ids)

\* Session s is a finished create of a tag or a collection.
CreateAnswered(s) ==
    sessions[s].op \in {"create_tag", "create_collection"} /\ sessions[s].pc = "done"

(***************************************************************************)
(* C20: of two finished creates of a tag, or of a collection, with the     *)
(* same title for the same user, at most one succeeded, and one that did   *)
(* not succeed was answered the duplicate-title error (400).               *)
(***************************************************************************)
C20_DuplicateCreateIsConflict ==
    \A s, o \in Sessions :
        ( /\ s # o
          /\ CreateAnswered(s) /\ CreateAnswered(o)
          /\ sessions[s].op = sessions[o].op
          /\ sessions[s].user_id = sessions[o].user_id
          /\ sessions[s].body.title = sessions[o].body.title )
        => /\ ~(sessions[s].kind = "ok" /\ sessions[o].kind = "ok")
           /\ sessions[s].kind # "ok" =>
                (sessions[s].kind = "duplicate_title" /\ sessions[s].status = 400)

----------------------------------------------------------------------------
(***************************************************************************)
(* Titles.  Requests of two users that create and rename tags and          *)
(* collections with the titles T1 and T2 run interleaved (a sequence of    *)
(* requests is the interleaving in which each ends before the next         *)
(* begins).  TitleInit draws the collections: none, two of user 1, or one  *)
(* of each user, with different titles.                                    *)
(***************************************************************************)
TitleCollectionIds == {1, 2}
TitleCollectionRow(u, t) ==
    [user_id |-> u, title |-> t, description |-> NullStr, type |-> MIXED,
     updated_at |-> 1]
TitleCollectionTables ==
    {<<>>, <<TitleCollectionRow(1, T1), TitleCollectionRow(1, T2)>>,
     <<TitleCollectionRow(1, T1), TitleCollectionRow(2, T2)>>}
TitleBodies == {[title |-> T1], [title |-> T2]}

TitleInit ==
    /\ tags = <<>>
    /\ collections \in TitleCollectionTables
    /\ tasks = <<>>
    /\ notes = <<>>
    /\ tag_task_association = {}
    /\ tag_note_association = {}
    /\ tag_collection_association = {}
    /\ foreign_keys = FALSE
    /\ now = 1
    /\ resp = NoResp
    /\ gs = NoSearch
    /\ sub = NoSub
    /\ store_reads = {}
    /\ sresp = NoSearchResp
    /\ sessions = NoSessions

TitleNext ==
    \/ \E s \in Sessions : BeginCreateTag(s, Users, TitleBodies)
    \/ \E s \in Sessions : FlushCreateTag(s)
    \/ \E s \in Sessions : BeginUpdateTag(s, Users, TagIds, TitleBodies)
    \/ \E s \in Sessions : FlushUpdateTag(s)
    \/ \E s \in Sessions : BeginCreateCollection(s, Users, TitleBodies)
    \/ \E s \in Sessions : FlushCreateCollection(s)
    \/ \E s \in Sessions : BeginUpdateCollection(s, Users, TitleCollectionIds, TitleBodies)
    \/ \E s \in Sessions : FlushUpdateCollection(s)
    \/ \E s \in Sessions : CommitSession(s)
    \/ \E s \in Sessions : EndRequest(s)

TitleSpec == TitleInit /\ [][TitleNext]_vars

\* No two rows of the table have the same user and the same title.
TitlesUnique(table) ==
    \A x, y \in DOMAIN table :
        (x # y /\ table[x].user_id = table[y].user_id) => table[x].title # table[y].title

\* The table a tag or collection request is about.
TitledTable(op) == IF op \in {"create_tag", "update_tag"} THEN tags ELSE collections

\* The title the request r asks for is held, in the committed store, by
\* another tag (collection) of the requesting user.
TitleTaken(r) ==
    \E x \in DOMAIN TitledTable(r.op) :
        /\ x # r.id
        /\ TitledTable(r.op)[x].user_id = r.user_id
        /\ TitledTable(r.op)[x].title = r.body.title

----------------------------------------------------------------------------
(***************************************************************************)
(* Tags that go away.  Requests of user 1 update task 1 (its title and its *)
(* tags) and delete tags, and user 2 creates a tag, all interleaved; the   *)
(* store is drawn by ConcurrentInit.  After the last tag is deleted the    *)
(* store gives its id to the next tag created.                             *)
(***************************************************************************)
RaceNext ==
    \/ \E s \in Sessions : BeginUpdateTask(s, ConcurrentUsers, ConcurrentUpdateBodies)
    \/ \E s \in Sessions : UpdateTaskRow(s)
    \/ \E s \in Sessions : RefreshTags(s)
    \/ \E s \in Sessions : FlushTags(s)
    \/ \E s \in Sessions : BeginDeleteTag(s, ConcurrentUsers, TagIds)
    \/ \E s \in Sessions : FlushDeleteTag(s)
    \/ \E s \in Sessions : BeginCreateTag(s, Users \ ConcurrentUsers, ConcurrentTagBodies)
    \/ \E s \in Sessions : FlushCreateTag(s)
    \/ \E s \in Sessions : CommitSession(s)
    \/ \E s \in Sessions : EndRequest(s)

RaceSpec == ConcurrentInit /\ [][RaceNext]_vars

\* The tag ids session s asks for that are no tag of its user in the
\* committed store.
GoneTags(s) ==
    {t \in Range(tag_ids_of(sessions[s].body)) :
        t \notin DOMAIN tags \/ tags[t].user_id # sessions[s].user_id}

(***************************************************************************)
(* C22: when set_task_tags looks its tags up (the request has passed the   *)
(* service's tag check) and one of the requested tags has been deleted or  *)
(* is another user's by then, the request ends there with the              *)
(* tags-not-found error (400), and the store, so the task's links, is      *)
(* left as it was.                                                         *)
(***************************************************************************)
C22_TagsRevalidatedAtReconciliation ==
    [][\A s \in Sessions :
        ( /\ sessions[s].pc = "updated" /\ sessions'[s].pc # "updated"
          /\ has_tag_ids(sessions[s].body)
          /\ GoneTags(s) # {} )
        => /\ sessions'[s].pc = "done"
           /\ sessions'[s].kind = "tags" /\ sessions'[s].status = 400
           /\ ~sessions'[s].writes
           /\ store_vars' = store_vars]_vars

\* set_task_tags raised the tag error for a request that had passed the
\* service's check: a tag it asks for was deleted meanwhile, or its id is
\* now a tag of the other user; the task is not linked to it.
C22_Witness ==
    \E s \in Sessions :
        /\ sessions[s].op = "update_task" /\ sessions[s].raised = "updated"
        /\ sessions[s].kind = "tags"
        /\ \E t \in GoneTags(s) : t \in DOMAIN tags
        /\ \E t \in GoneTags(s) : t \notin DOMAIN tags
        /\ \A t \in GoneTags(s) : <<t, sessions[s].id>> \notin tag_task_association

----------------------------------------------------------------------------
\* The response about to be sent is for an update_user_collection of the
\* collection's owner that sets a kind other than the one the collection has.
KindChanges ==
    /\ resp'.op = "update_collection"
    /\ resp'.id \in DOMAIN collections
    /\ collections[resp'.id].user_id = resp'.user_id
    /\ "type" \in DOMAIN resp'.body
    /\ resp'.body.type # collections[resp'.id].type

(***************************************************************************)
(* C23: an update_user_collection that changes the kind of a collection    *)
(* never fails on account of the tasks and notes linked to it (it fails    *)
(* only for tag ids that are not the user's, or for a title another        *)
(* collection of the user has, and otherwise sets the kind), and every     *)
(* task and note, linked or not, is left as it was, collection_id          *)
(* included.                                                               *)
(***************************************************************************)
C23_KindChangeIgnoresLinkedItems ==
    [][KindChanges =>
        /\ tasks' = tasks
        /\ notes' = notes
        /\ resp'.kind \in {"ok", "tags", "duplicate_title"}
        /\ resp'.kind = "tags" => NotOwned(resp'.user_id, tag_ids_of(resp'.body)) # {}
        /\ resp'.kind = "duplicate_title" =>
                \E c \in DOMAIN collections \ {resp'.id} :
                    /\ collections[c].user_id = resp'.user_id
                    /\ collections[c].title = resp'.body.title
        /\ resp'.kind = "ok" => collections'[resp'.id].type = resp'.body.type]_vars

\* A collection that holds a task and a note was made notes-only: the task
\* and the note are still linked to it.
C23_Witness ==
    /\ resp.op = "update_collection" /\ resp.kind = "ok" /\ ~resp.resent
    /\ "type" \in DOMAIN resp.body /\ resp.body.type = NOTES_ONLY
    /\ collections[resp.id].type = NOTES_ONLY
    /\ \E t \in DOMAIN tasks : tasks[t].collection_id = resp.id
    /\ \E n \in DOMAIN notes : notes[n].collection_id = resp.id

----------------------------------------------------------------------------
(***************************************************************************)
(* Every handler that is modelled statement by statement, interleaved, on  *)
(* the store drawn by ConcurrentInit: user 1 updates task 1, creates,      *)
(* renames and deletes tags, creates and updates a collection (its kind    *)
(* and its tags).                                                          *)
(***************************************************************************)
SessionTaskBodies == {[title |-> T2, tag_ids |-> <<1, 2>>], [title |-> T1, tag_ids |-> <<2>>]}
SessionCollectionBodies == {[title |-> T1], [title |-> T1, type |-> NOTES_ONLY, tag_ids |-> <<1>>]}

SessionNext ==
    \/ \E s \in Sessions : BeginUpdateTask(s, ConcurrentUsers, SessionTaskBodies)
    \/ \E s \in Sessions : UpdateTaskRow(s)
    \/ \E s \in Sessions : RefreshTags(s)
    \/ \E s \in Sessions : FlushTags(s)
    \/ \E s \in Sessions : BeginCreateTag(s, ConcurrentUsers, ConcurrentTagBodies)
    \/ \E s \in Sessions : FlushCreateTag(s)
    \/ \E s \in Sessions : BeginUpdateTag(s, ConcurrentUsers, TagIds, ConcurrentTagBodies)
    \/ \E s \in Sessions : FlushUpdateTag(s)
    \/ \E s \in Sessions : BeginDeleteTag(s, ConcurrentUsers, TagIds)
    \/ \E s \in Sessions : FlushDeleteTag(s)
    \/ \E s \in Sessions : BeginCreateCollection(s, ConcurrentUsers, SessionCollectionBodies)
    \/ \E s \in Sessions : FlushCreateCollection(s)
    \/ \E s \in Sessions : BeginUpdateCollection(s, ConcurrentUsers, CollectionIds,
                                                 SessionCollectionBodies)
    \/ \E s \in Sessions : FlushUpdateCollection(s)
    \/ \E s \in Sessions : CommitSession(s)
    \/ \E s \in Sessions : EndRequest(s)

SessionSpec == ConcurrentInit /\ [][SessionNext]_vars

----------------------------------------------------------------------------
(***************************************************************************)
(* C25: a create or update of a task, a note or a collection that supplies *)
(* tag ids and fails one of its validations (a tag id that is not the      *)
(* user's, the collection not found, the containment rule) has flushed     *)
(* nothing when it fails: the validations come before the entity write.    *)
(***************************************************************************)
C25_ValidatedBeforeWritten ==
    ( /\ resp.op \in TaggingOps
      /\ has_tag_ids(resp.body)
      /\ resp.kind \in {"tags", "collection_not_found", "containment"} )
    => ~resp.flushed

----------------------------------------------------------------------------
\* The row's collection_id is null, or the id of a collection of the row's user.
LinkIsOwned(row) ==
    row.collection_id # None =>
        /\ row.collection_id \in DOMAIN collections
        /\ collections[row.collection_id].user_id = row.user_id

(***************************************************************************)
(* C26: every task and every note whose collection_id is not null refers   *)
(* to a collection that exists and belongs to the task's (note's) user,    *)
(* whatever integer, 0 included, the requests supplied as collection_id    *)
(* and whatever collections were deleted.                                  *)
(***************************************************************************)
C26_CollectionLinksAreOwned ==
    /\ \A t \in DOMAIN tasks : LinkIsOwned(tasks[t])
    /\ \A n \in DOMAIN notes : LinkIsOwned(notes[n])
----------------------------------------------------------------------------
UpdateOps == {"update_task", "update_note", "update_collection"}
CreateOps == {"create_task", "create_note", "create_collection"}
association_vars == <<tag_task_association, tag_note_association,
                      tag_collection_association>>

(***************************************************************************)
(* C27: an update of a task, a note or a collection whose body has no      *)
(* tag_ids (absent or null) leaves the entity's tag set, and every         *)
(* association row, as it was; an update whose tag_ids is the empty list   *)
(* leaves the entity without any tag; a create without tag_ids yields an   *)
(* entity with no tag.                                                     *)
(***************************************************************************)
C27_AbsentKeepsEmptyClears ==
    /\ [] /\ (resp.op \in UpdateOps /\ resp.kind = "ok"
                /\ "tag_ids" \notin DOMAIN resp.body)
             => TagsOf(RowsOfOp(resp.op), resp.id) = resp.prev_tags
          /\ (resp.op \in UpdateOps /\ resp.kind = "ok"
                /\ "tag_ids" \in DOMAIN resp.body /\ resp.body.tag_ids = <<>>)
             => TagsOf(RowsOfOp(resp.op), resp.id) = {}
          /\ (resp.op \in CreateOps /\ resp.kind = "ok"
                /\ "tag_ids" \notin DOMAIN resp.body)
             => TagsOf(RowsOfOp(resp.op), resp.id) = {}
    /\ [][ (resp'.op \in UpdateOps /\ resp'.kind = "ok" /\ resp' # resp
             /\ "tag_ids" \notin DOMAIN resp'.body)
          => UNCHANGED association_vars ]_vars

\* C27 witness: a collection that had tags was updated with an empty
\* tag_ids list and has none left, while a task keeps the tag it had.
C27_Witness ==
    /\ resp.op = "update_collection" /\ resp.kind = "ok"
    /\ "tag_ids" \in DOMAIN resp.body /\ resp.body.tag_ids = <<>>
    /\ resp.prev_tags # {}
    /\ TagsOf(tag_collection_association, resp.id) = {}
    /\ tag_task_association # {}

----------------------------------------------------------------------------
(***************************************************************************)
(* The reads of one entity by id: 404 unless the row is the requester's.   *)
(***************************************************************************)
get_user_task_by_id(db, user_id, task_id) ==
    IF get_task_by_id_and_user(db, task_id, user_id) = {}
    THEN HTTPException(db, 404, "not_found", <<>>)
    ELSE Done(db, 200)

get_user_note_by_id(db, user_id, note_id) ==
    IF get_note_by_id_and_user(db, note_id, user_id) = {}
    THEN HTTPException(db, 404, "not_found", <<>>)
    ELSE Done(db, 200)

get_user_collection_by_id(db, user_id, collection_id) ==
    IF get_collection_by_id_and_user(db, collection_id, user_id) = {}
    THEN HTTPException(db, 404, "not_found", <<>>)
    ELSE Done(db, 200)

\* The mutant of get_user_tag_by_id: the tag is looked up by id alone.
get_tag_of_any_user(db, user_id, tag_id) ==
    IF tag_id \notin DOMAIN db.tags
    THEN HTTPException(db, 404, "not_found", <<>>)
    ELSE Done(db, 200)

get_user_tag_by_id(db, user_id, tag_id) ==
    IF get_tag_by_id_and_user(db, tag_id, user_id) = {}
    THEN HTTPException(db, 404, "not_found", <<>>)
    ELSE Done(db, 200)

GetTask ==
    /\ Idle
    /\ \E u \in Users, id \in TaskIds :
        LET r == get_user_task_by_id(DB, u, id)
        IN  Commit(r)
            /\ Reply("get_task", u, id, <<>>, r, TagsOf(tag_task_association, id), FALSE)
    /\ UNCHANGED <<env_vars, search_vars, session_vars>>

GetNote ==
    /\ Idle
    /\ \E u \in Users, id \in NoteIds :
        LET r == get_user_note_by_id(DB, u, id)
        IN  Commit(r)
            /\ Reply("get_note", u, id, <<>>, r, TagsOf(tag_note_association, id), FALSE)
    /\ UNCHANGED <<env_vars, search_vars, session_vars>>

GetCollection ==
    /\ Idle
    /\ \E u \in Users, id \in CollectionIds :
        LET r == get_user_collection_by_id(DB, u, id)
        IN  Commit(r)
            /\ Reply("get_collection", u, id, <<>>, r,
                     TagsOf(tag_collection_association, id), FALSE)
    /\ UNCHANGED <<env_vars, search_vars, session_vars>>

GetTag ==
    /\ Idle
    /\ \E u \in Users, id \in TagIds :
        LET r == get_user_tag_by_id(DB, u, id)
        IN  Commit(r) /\ Reply("get_tag", u, id, <<>>, r, {}, FALSE)
    /\ UNCHANGED <<env_vars, search_vars, session_vars>>

OwnerTaskBodies == Optional({[title |-> T1]}, "tag_ids", {<<1>>})
OwnerCollectionBodies == Optional({[title |-> t] : t \in {T1, T2}}, "tag_ids", {<<1>>})
OwnerTagBodies == {[title |-> t] : t \in {T1, T2}}

OwnerNext ==
    \/ CreateTask(OwnerTaskBodies)
    \/ GetTask
    \/ UpdateTask(OwnerTaskBodies)
    \/ DeleteTask
    \/ CreateNote(OwnerTaskBodies)
    \/ GetNote
    \/ UpdateNote(OwnerTaskBodies)
    \/ DeleteNote
    \/ CreateCollection(OwnerCollectionBodies)
    \/ GetCollection
    \/ UpdateCollection(OwnerCollectionBodies)
    \/ DeleteCollection
    \/ CreateTag(OwnerTagBodies)
    \/ GetTag
    \/ UpdateTag(OwnerTagBodies)
    \/ DeleteTag
    \/ CloseSession

OwnerSpec == Init /\ [][OwnerNext]_vars

ByIdOps == {"get_task", "update_task", "delete_task",
            "get_note", "update_note", "delete_note",
            "get_collection", "update_collection", "delete_collection",
            "get_tag", "update_tag", "delete_tag"}

\* The table an operation on one entity addresses.
TableOfOp(op) ==
    IF op \in {"get_task", "update_task", "delete_task"} THEN tasks
    ELSE IF op \in {"get_note", "update_note", "delete_note"} THEN notes
    ELSE IF op \in {"get_collection", "update_collection", "delete_collection"}
    THEN collections
    ELSE tags

Owns(user_id, table, id) == id \in DOMAIN table /\ table[id].user_id = user_id

(***************************************************************************)
(* C28: a get, an update or a delete of a task, a note, a collection or a  *)
(* tag by a user who does not own it is answered 404 not-found, the        *)
(* answer given for an id that no row has, and leaves every table and      *)
(* every tag link as it was.                                               *)
(***************************************************************************)
C28_NotOwnedIsNotFound ==
    [][ (resp' # resp /\ resp'.op \in ByIdOps
         /\ ~Owns(resp'.user_id, TableOfOp(resp'.op), resp'.id))
        => /\ resp'.status = 404 /\ resp'.kind = "not_found" /\ resp'.missing = <<>>
           /\ UNCHANGED store_vars ]_vars

\* C28 witness: a user asked to delete another user's tag that a task and a
\* collection carry: 404, and the tag and its links are still there.
C28_Witness ==
    /\ resp.op = "delete_tag" /\ resp.kind = "not_found" /\ resp.status = 404
    /\ resp.id \in DOMAIN tags /\ tags[resp.id].user_id # resp.user_id
    /\ \E t \in DOMAIN tasks : <<resp.id, t>> \in tag_task_association
    /\ \E c \in DOMAIN collections : <<resp.id, c>> \in tag_collection_association

----------------------------------------------------------------------------
(***************************************************************************)
(* The sub-searches of asyncio.gather one await at a time.  gather wraps   *)
(* the four coroutines in tasks that the event loop starts in the order    *)
(* they were passed; each runs up to `await self.db.execute(stmt)`, where  *)
(* its query is in flight until the store answers.  The four services hold *)
(* repositories built on Depends(get_async_session), which FastAPI         *)
(* resolves once per request: one AsyncSession for all four.               *)
(***************************************************************************)
gather_order == <<"tasks", "notes", "collections", "tags">>
position(k) == CHOOSE i \in DOMAIN gather_order : gather_order[i] = k

\* The AsyncSession of the repository behind the sub-search of a kind.
session_of(k) == 1

Executing(k) == sub[k].st = "executing"

\* The task of kind k starts once those before it have reached an await.
SubSearchExecutes(k) ==
    /\ gs.pc = "gather"
    /\ sub[k].st = "pending"
    /\ \A j \in Kinds : position(j) < position(k) => sub[j].st # "pending"
    /\ sub_search(DB, k, gs.user_id, strip(gs.query)).kind = "ok"
    /\ sub' = [sub EXCEPT ![k].st = "executing"]
    /\ store_reads' = store_reads \cup {k}
    /\ UNCHANGED <<store_vars, env_vars, session_vars, resp, gs, sresp>>

ExecuteReturns(k) ==
    /\ gs.pc = "gather"
    /\ Executing(k)
    /\ \E rows \in sub_search(DB, k, gs.user_id, strip(gs.query)).results :
        sub' = [sub EXCEPT ![k] = [st |-> "returned", error |-> "none", result |-> rows]]
    /\ UNCHANGED <<store_vars, env_vars, session_vars, resp, gs, sresp, store_reads>>

\* The execute raises: the store fails, or the session refuses the
\* operation because another one is in progress on it.
ExecuteRaises(k) ==
    /\ gs.pc = "gather"
    /\ Executing(k)
    /\ sub' = [sub EXCEPT ![k] = [st |-> "raised", error |-> "store", result |-> <<>>]]
    /\ UNCHANGED <<store_vars, env_vars, session_vars, resp, gs, sresp, store_reads>>

GatherNext ==
    \/ GlobalSearch(SearchQueries, {MaxLimit})
    \/ \E k \in Kinds : SubSearchExecutes(k)
    \/ \E k \in Kinds : ExecuteReturns(k)
    \/ \E k \in Kinds : ExecuteRaises(k)
    \/ GatherReturns
    \/ GatherRaises

GatherSpec == SearchInit /\ [][GatherNext]_vars

(***************************************************************************)
(* C29: during global_search no two sub-searches have a query in flight on *)
(* the same database session at the same time.                             *)
(***************************************************************************)
C29_OneOperationPerSession ==
    \A j, k \in Kinds :
        (j # k /\ session_of(j) = session_of(k)) => ~(Executing(j) /\ Executing(k))

----------------------------------------------------------------------------
\* The association rows, of the three tables, that refer to a tag id.
RowsOfTag(t) ==
    {r \in tag_task_association \cup tag_note_association
            \cup tag_collection_association : r[1] = t}

\* A delete_user_tag of the tag has committed and no tag has its id since.
DeleteCommitted(t) ==
    /\ t \notin DOMAIN tags
    /\ \E s \in Sessions :
        /\ sessions[s].op = "delete_tag" /\ sessions[s].id = t
        /\ sessions[s].pc = "done" /\ sessions[s].kind = "ok"

(***************************************************************************)
(* C30: once delete_user_tag has committed, no association row refers to   *)
(* the deleted tag id, so no task, note or collection has the tag, however *)
(* the delete interleaves with an update that sets the tag on a task.      *)
(***************************************************************************)
C30_NoLinkToDeletedTag ==
    \A t \in TagIds : DeleteCommitted(t) => RowsOfTag(t) = {}

============================================================================
